---- MODULE Spec2Model ----
(***************************************************************************)
(* Protocol engine of the Mitsubishi MA Touch BLE thermostat client        *)
(* (btmatouch/thermostat.py): connection lifecycle, single-flight request  *)
(* correlator, frame transport and the scoped-connection helper, run by    *)
(* cooperative asyncio tasks over a BLE transport and a device.            *)
(*                                                                         *)
(* One asyncio event loop: a task runs without interruption from one       *)
(* await to the next.  `running` names the task that is executing a        *)
(* synchronous stretch of code; while it is set no other task, timer,      *)
(* notification or transport event takes a step.                           *)
(***************************************************************************)
EXTENDS Integers, Sequences, FiniteSets, TLC

(* ------------------------------ bounds --------------------------------- *)

\* top-level calls (sessions or direct API calls) the callers may start
MaxOps == 2
\* longest payload of the inbound frames of the reassembly runs
MaxPayload == 62
\* a temperature is a whole number of steps, TempGrid steps to the half degree
TempGrid == 10
\* environment faults: transport errors, link loss, early timeouts,
\* cancellations, non-success or mistyped device answers
MaxFaults == 1
\* requests the device has received and not yet answered
MaxOwed == 2

\* handlers registered with the engine, all events together
MaxHandlers == 3

(* ----------------------------- constants ------------------------------- *)

Tasks == {"t1", "t2"}
NoTask == "none"

\* _MAMessageType
LOGIN_REQUEST == 1
UNKNOWN_1 == 3
UNKNOWN_2 == 1025
UNKNOWN_3 == 1027
UNKNOWN_4 == 257
UNKNOWN_5 == 259
STATUS_REQUEST == 517
CONTROL_REQUEST == 261

\* _MAResult
SUCCESS == 0
BAD_PIN == 2
IN_MENUS == 9
UNKNOWN_3_BAD_PIN == 10

\* _MAOperationModeFlags
POWER == 1
FAN == 2
COOL == 8
HEAT == 16
DRY == 32
AUTO == 64

\* MAOperationMode
OperationModes == {"OFF", "AUTO", "HEAT", "COOL", "DRY", "FAN"}

\* MA_MIN_TEMP, MA_MAX_TEMP, in degrees
MA_MIN_TEMP == 16
MA_MAX_TEMP == 31

\* the PIN of the config entry
Pin == 39321

\* write size of _async_write_request, fragment size of the notifications
ChunkSize == 20
\* ceiling of the declared length in _on_message_received
MaxReceiveLength == 64

(* --------------------------- wire codec -------------------------------- *)

RECURSIVE SumBytes(_)
SumBytes(s) == IF s = <<>> THEN 0 ELSE Head(s) + SumBytes(Tail(s))

\* variant: the sum is not cut to its low byte
CrcSum_Unmasked(frame) == SumBytes(frame)

\* Thermostat._crc_sum
CrcSum(frame) == SumBytes(frame) % 256

Int16un(v) == <<v % 256, (v \div 256) % 256>>

\* _MAMessageHeader.to_bytes
MessageHeader(length, id) == Int16un(length) \o <<id % 256>>

\* _MAMessageFooter.to_bytes
MessageFooter(crc) == Int16un(crc)

\* _MAAuthenticatedRequest.to_bytes (request_flag 0x01, three zero bytes)
AuthenticatedRequest(mt, pin) == Int16un(mt) \o <<1>> \o Int16un(pin) \o <<0, 0, 0>>

\* _MAStatusRequest.to_bytes (request_flag 0x00)
StatusRequest == Int16un(STATUS_REQUEST) \o <<0>>

\* round(x) of Python for x = num / den: to the nearest integer, a tie to the
\* even one
Round(num, den) ==
    LET q == num \div den
        r == num % den
    IN  IF 2 * r < den THEN q
        ELSE IF 2 * r > den THEN q + 1
        ELSE IF q % 2 = 0 THEN q ELSE q + 1

\* variant: the number is written as it is, not digit by digit
DecimalDigitsAsHex_Plain(n) == n

\* int(str(n), 16) for 0 <= n <= 9999: the decimal digits read as hex digits
DecimalDigitsAsHex(n) ==
    (n \div 1000) * 4096 + ((n \div 100) % 10) * 256
    + ((n \div 10) % 10) * 16 + (n % 10)

\* _MATemperature.encode of a temperature of k steps (value*2 is k / TempGrid):
\* int(str(int(round(value*2)/2*10)), 16).to_bytes(2, "little")
TemperatureEncode(k) == Int16un(DecimalDigitsAsHex(Round(k, TempGrid) * 5))

\* _MATemperature.decode: float(bytes(reversed(value)).hex())/10, in tenths of a
\* degree; -1 stands for the ValueError of float() on a hex digit above 9
TemperatureDecode(value) ==
    LET d == <<value[2] \div 16, value[2] % 16, value[1] \div 16, value[1] % 16>>
    IN  IF \E i \in 1..4 : d[i] > 9 THEN -1
        ELSE d[1] * 1000 + d[2] * 100 + d[3] * 10 + d[4]

\* _MAControlRequest.to_bytes as _async_write_control_request fills it in:
\* request_flag 0x01, the three unknown setpoints 0, the setpoints in
\* steps
ControlRequestOf(flags_a, flags_b, flags_c, omf, cool, heat, vane_fan) ==
    Int16un(CONTROL_REQUEST) \o <<1, flags_a, flags_b, flags_c, omf>>
    \o TemperatureEncode(cool) \o TemperatureEncode(heat)
    \o <<0, 0, 0, 0, 0, 0>> \o <<vane_fan, 0, 0>>

\* _MAControlRequest.to_bytes with all setpoints 0 and vane_fan_mode 0, as
\* async_set_operation_mode builds it
ControlRequest(flags_a, omf) == ControlRequestOf(flags_a, 0, 0, omf, 0, 0, 0)

\* variant: the header carries the length of the payload alone
Frame_PayloadLength(payload, id) ==
    LET head == MessageHeader(Len(payload), id) \o payload
    IN  head \o MessageFooter(CrcSum(head))

\* the frame _async_write_request assembles: header, payload, footer
Frame(payload, id) ==
    LET head == MessageHeader(1 + Len(payload) + 2, id) \o payload
    IN  head \o MessageFooter(CrcSum(head))

\* message[i:i+20] for the chunk number ci (1-based)
Chunk(message, ci) ==
    SubSeq(message, (ci - 1) * ChunkSize + 1,
           IF ci * ChunkSize < Len(message) THEN ci * ChunkSize ELSE Len(message))

\* variant: the number of whole chunks only
NumChunks_RoundedDown(message) == Len(message) \div ChunkSize

\* range(0, len(message), 20): the number of chunks
NumChunks(message) == (Len(message) + ChunkSize - 1) \div ChunkSize

\* fields of a frame on the wire
FrameId(message) == message[3]
FrameType(message) == message[4] + 256 * message[5]


(* ----------------------- the device's answers -------------------------- *)

\* body of a status response after its 4-byte header (_MAStatusResponse)
StatusBody ==
    <<0, 0, 50, 16, 3, 96, 1, 144, 2, 0, 1, 16, 3, 96, 1, 16, 3, 128, 1, 144,
      2, 96, 1, 64, 2, 16, 2, 144, 1, 64, 2, 144, 1, 64, 6, 0, 0, 0, 0, 0,
      32, 2, 1, 0, 16, 4>>

\* fixed layouts: _MAResponse, _MAControlResponse, _MAStatusResponse
ResponseLen == 4
ControlResponseLen == 6
StatusResponseLen == 50

\* the payload the device answers a request of 16-bit type mt with
ResponsePayload(mt, result) ==
    <<mt % 256, result, 0, 0>> \o
    (IF mt = STATUS_REQUEST THEN StatusBody
     ELSE IF mt = CONTROL_REQUEST THEN <<0, 0>> ELSE <<>>)

\* an inbound frame: same layout as an outbound one
InboundFrame(payload) == Frame(payload, 0)

(* ------------------------------ state ---------------------------------- *)

VARIABLES
    message_id,        \* Thermostat._message_id
    response_future,   \* Thermostat._response_future: NoTask, or the task whose Future it holds
    fut,               \* the Future each task's send created: state and result
    receive_length,    \* Thermostat._receive_length
    receive_buffer,    \* Thermostat._receive_buffer
    versions,          \* firmware and software version are cached
    last_status,       \* Thermostat._last_status (<<>> is None)
    connection_lock,   \* Thermostat._connection_lock
    gatt_lock,         \* Thermostat._gatt_lock
    link,              \* BleakClient: "down", "up", "closing"
    nConn,             \* transport connect calls in progress
    notifying,         \* start_notify is in effect on the link
    wire,              \* device: chunks received of a frame not yet complete
    owed,              \* device: request types received and not yet answered
    air,               \* device: bytes of the answer not yet notified
    inbound,           \* device: the frame it is notifying, while bytes of it remain
    task,              \* each caller: where it is and what it is doing
    running,           \* the task executing between two awaits, or NoTask
    opsLeft,           \* calls the callers may still start
    faultsLeft,        \* faults the environment may still inject
    nAccepted,         \* requests accepted since message_id was last reset
    discSaw,           \* the state the transport's disconnect primitive, while it runs,
                       \* was called with: that of the Future in the pending-response slot
    callbacks,         \* Thermostat._callbacks: the handlers registered for each event
    invoked            \* the last publication: its event, the handlers it invoked,
                       \* whether it raised (<<>>: nothing published yet)

vars == <<message_id, response_future, fut, receive_length, receive_buffer,
          versions, last_status, connection_lock, gatt_lock, link, nConn,
          notifying, wire, owed, air, inbound, task, running, opsLeft,
          faultsLeft, nAccepted, discSaw, callbacks, invoked>>

engine == <<message_id, response_future, fut, receive_length, receive_buffer,
            versions, last_status, connection_lock, gatt_lock>>
framing == <<receive_length, receive_buffer>>
device == <<owed, air, inbound>>
ghosts == <<nAccepted, discSaw>>

\* MAEvent
Events == {"CONNECTED", "DISCONNECTED", "STATUS_RECEIVED"}

NoFut == [st |-> "none", val |-> <<>>]
PendingFut == [st |-> "pending", val |-> <<>>]

IdleTask ==
    [pc |-> "idle", top |-> "none", sess |-> "none", mid |-> "none", seq |-> 0,
     exc |-> "none", xv |-> "none", body |-> <<>>, bi |-> 0, arg |-> 0,
     req |-> <<>>, msg |-> <<>>, ci |-> 0, aw |-> NoTask, resp |-> <<>>]

FreeLock == [owner |-> NoTask, waiters |-> <<>>]

\* Thermostat.__init__
Init ==
    /\ message_id = 0
    /\ response_future = NoTask
    /\ fut = [t \in Tasks |-> NoFut]
    /\ receive_length = 0
    /\ receive_buffer = <<>>
    /\ versions = FALSE
    /\ last_status = <<>>
    /\ connection_lock = FreeLock
    /\ gatt_lock = FreeLock
    /\ link = "down"
    /\ nConn = 0
    /\ notifying = FALSE
    /\ wire = <<>>
    /\ owed = <<>>
    /\ air = <<>>
    /\ inbound = <<>>
    /\ task = [t \in Tasks |-> IdleTask]
    /\ running = NoTask
    /\ opsLeft = MaxOps
    /\ faultsLeft = MaxFaults
    /\ nAccepted = 0
    /\ discSaw = "none"
    /\ callbacks = [e \in Events |-> <<>>]
    /\ invoked = <<>>

(* ------------------------------ helpers -------------------------------- *)

\* variant: is_connected answers True whatever the link
IsConnected_Always == TRUE

\* Thermostat.is_connected (BleakClient.is_connected)
IsConnected == link \in {"up", "closing"}

\* variant: acquire() returns at once whatever the state of the lock
LockFree_Unchecked(l) == TRUE

\* asyncio.Lock: acquire() returns at once only when unlocked with nobody queued
LockFree(l) == l.owner = NoTask /\ l.waiters = <<>>
Locked(l, t) == [l EXCEPT !.owner = t]
Queued(l, t) == [l EXCEPT !.waiters = Append(@, t)]
Released(l) == [l EXCEPT !.owner = NoTask]
CanWake(l, t) == l.owner = NoTask /\ l.waiters # <<>> /\ Head(l.waiters) = t
Woken(l, t) == [owner |-> t, waiters |-> Tail(l.waiters)]
Dequeued(l, t) == [l EXCEPT !.waiters = SelectSeq(@, LAMBDA u : u # t)]

\* a task's record with the position changed
At(t, pc) == [task[t] EXCEPT !.pc = pc]

\* mid-level operation finished: back in its caller with exception e ("none": returned)
Finished(r, e) ==
    [r EXCEPT !.pc = "ret", !.exc = e, !.seq = 0, !.req = <<>>, !.msg = <<>>,
              !.ci = 0, !.aw = NoTask, !.resp = <<>>]

\* variant: a send that timed out starts over with the same request
Sent_Retried(r, e, payload) ==
    IF e = "Timeout"
    THEN [r EXCEPT !.pc = "w_entry", !.msg = <<>>, !.ci = 0, !.aw = NoTask]
    ELSE [r EXCEPT !.pc = r.mid, !.exc = e, !.msg = <<>>, !.req = <<>>, !.ci = 0,
                   !.aw = NoTask, !.resp = payload]

\* _async_write_request finished: back in the operation that sent the request
Sent(r, e, payload) ==
    [r EXCEPT !.pc = r.mid, !.exc = e, !.msg = <<>>, !.req = <<>>, !.ci = 0,
              !.aw = NoTask, !.resp = payload]

Fault == faultsLeft > 0 /\ faultsLeft' = faultsLeft - 1
NoFault == UNCHANGED faultsLeft


(* --------------------------- async_connect ----------------------------- *)

\* async_connect up to its first await: the state check, the reset of the
\* message id, the call of the transport's connect
AsyncConnect(t) ==
    /\ running = t
    /\ task[t].pc = "c_entry"
    /\ IF IsConnected
       THEN /\ task' = [task EXCEPT ![t] = Finished(@, "State")]
            /\ UNCHANGED <<message_id, nAccepted, nConn, running>>
       ELSE /\ message_id' = 0
            /\ nAccepted' = 0
            /\ nConn' = nConn + 1
            /\ task' = [task EXCEPT ![t] = At(t, "c_conn")]
            /\ running' = NoTask
    /\ UNCHANGED <<response_future, fut, framing, versions, last_status,
                   connection_lock, gatt_lock, link, notifying, wire, device,
                   opsLeft, faultsLeft, discSaw,
                   callbacks, invoked>>

\* the transport connected; async_connect goes on to start_notify
ConnectDone(t) ==
    /\ running = NoTask
    /\ task[t].pc = "c_conn"
    /\ link # "closing"
    /\ link' = "up"
    /\ nConn' = nConn - 1
    /\ notifying' = (link = "up" /\ notifying)
    /\ task' = [task EXCEPT ![t] = At(t, "c_notify")]
    /\ UNCHANGED <<engine, wire, device, running, opsLeft, faultsLeft, ghosts, callbacks, invoked>>

\* the transport's connect raised BleakError, or wait_for timed it out
ConnectFailed(t, e) ==
    /\ running = NoTask
    /\ task[t].pc = "c_conn"
    /\ e \in {"Connection", "Timeout"}
    /\ Fault
    /\ nConn' = nConn - 1
    /\ task' = [task EXCEPT ![t] = Finished(@, e)]
    /\ running' = t
    /\ UNCHANGED <<engine, link, notifying, wire, device, opsLeft, ghosts, callbacks, invoked>>

\* variant: _async_read_char calls read_gatt_char without waiting for the guard
ReadCharCall_Unguarded(r, n, lock) == [r EXCEPT !.pc = "c_read", !.seq = n]

\* _async_read_char up to its await: the state check and the transport guard
ReadCharCall(r, n, lock) ==
    IF LockFree(lock) THEN [r EXCEPT !.pc = "c_read", !.seq = n]
    ELSE [r EXCEPT !.pc = "c_rlock", !.seq = n]

\* start_notify returned: the versions are read unless cached, then CONNECTED
StartNotifyDone(t) ==
    /\ running = NoTask
    /\ task[t].pc = "c_notify"
    /\ link = "up"
    /\ notifying' = TRUE
    /\ IF versions
       THEN /\ task' = [task EXCEPT ![t] = Finished(@, "none")]
            /\ running' = t
            /\ UNCHANGED gatt_lock
       ELSE /\ task' = [task EXCEPT ![t] = ReadCharCall(@, 1, gatt_lock)]
            /\ gatt_lock' = IF LockFree(gatt_lock) THEN Locked(gatt_lock, t)
                            ELSE Queued(gatt_lock, t)
            /\ UNCHANGED running
    /\ UNCHANGED <<message_id, response_future, fut, framing, versions,
                   last_status, connection_lock, link, nConn, wire, device,
                   opsLeft, faultsLeft, ghosts, callbacks, invoked>>

\* start_notify raised BleakError
StartNotifyFailed(t) ==
    /\ running = NoTask
    /\ task[t].pc = "c_notify"
    /\ IF link = "up" THEN Fault ELSE NoFault
    /\ task' = [task EXCEPT ![t] = Finished(@, "Connection")]
    /\ running' = t
    /\ UNCHANGED <<engine, link, nConn, notifying, wire, device, opsLeft, ghosts, callbacks, invoked>>

\* the transport guard was released to the reader queued for it
ReadCharResume(t) ==
    /\ running = NoTask
    /\ task[t].pc = "c_rlock"
    /\ CanWake(gatt_lock, t)
    /\ gatt_lock' = Woken(gatt_lock, t)
    /\ task' = [task EXCEPT ![t] = At(t, "c_read")]
    /\ UNCHANGED <<message_id, response_future, fut, framing, versions,
                   last_status, connection_lock, link, nConn, notifying, wire,
                   device, running, opsLeft, faultsLeft, ghosts, callbacks, invoked>>

\* read_gatt_char returned: the next version is read, or connect returns
ReadDone(t) ==
    /\ running = NoTask
    /\ task[t].pc = "c_read"
    /\ link = "up"
    /\ IF task[t].seq = 1
       THEN /\ task' = [task EXCEPT ![t] = ReadCharCall(@, 2, Released(gatt_lock))]
            /\ gatt_lock' = IF LockFree(Released(gatt_lock))
                            THEN gatt_lock
                            ELSE Queued(Released(gatt_lock), t)
            /\ UNCHANGED <<versions, running>>
       ELSE /\ gatt_lock' = Released(gatt_lock)
            /\ versions' = TRUE
            /\ task' = [task EXCEPT ![t] = Finished(@, "none")]
            /\ running' = t
    /\ UNCHANGED <<message_id, response_future, fut, framing, last_status,
                   connection_lock, link, nConn, notifying, wire, device,
                   opsLeft, faultsLeft, ghosts, callbacks, invoked>>

\* read_gatt_char raised BleakError (MARequestException) or timed out
ReadFailed(t, e) ==
    /\ running = NoTask
    /\ task[t].pc = "c_read"
    /\ e \in {"Request", "Timeout"}
    /\ IF link = "up" THEN Fault ELSE (NoFault /\ e = "Request")
    /\ gatt_lock' = Released(gatt_lock)
    /\ task' = [task EXCEPT ![t] = Finished(@, e)]
    /\ running' = t
    /\ UNCHANGED <<message_id, response_future, fut, framing, versions,
                   last_status, connection_lock, link, nConn, notifying, wire,
                   device, opsLeft, ghosts, callbacks, invoked>>

(* -------------------------- async_disconnect --------------------------- *)

\* variant: async_disconnect leaves the pending Future alone
FailPending_Skipped(f) == f

\* lines 182-185: a pending Future is failed with "Connection closed"
FailPending(f) ==
    IF f.st = "pending" THEN [st |-> "exception", val |-> <<>>] ELSE f

\* the Futures after async_disconnect looked at the pending-response slot
AfterDisconnectCheck ==
    IF response_future # NoTask
    THEN [fut EXCEPT ![response_future] = FailPending(@)]
    ELSE fut

\* what the transport's disconnect primitive finds when async_disconnect calls it
SeenByTransport(futs) ==
    IF response_future = NoTask THEN "none" ELSE futs[response_future].st

\* async_disconnect up to its await: the state check, the failing of the
\* pending request, the call of the transport's disconnect
AsyncDisconnect(t) ==
    /\ running = t
    /\ task[t].pc = "d_entry"
    /\ IF ~IsConnected
       THEN /\ task' = [task EXCEPT ![t] = Finished(@, "State")]
            /\ UNCHANGED <<fut, link, discSaw, running>>
       ELSE /\ fut' = AfterDisconnectCheck
            /\ discSaw' = SeenByTransport(fut')
            /\ link' = "closing"
            /\ task' = [task EXCEPT ![t] = At(t, "d_wait")]
            /\ running' = NoTask
    /\ UNCHANGED <<message_id, response_future, framing, versions, last_status,
                   connection_lock, gatt_lock, nConn, notifying, wire, device,
                   opsLeft, faultsLeft, nAccepted, callbacks, invoked>>

\* the transport disconnected (or raised EOFError, which is passed over)
DisconnectDone(t) ==
    /\ running = NoTask
    /\ task[t].pc = "d_wait"
    /\ link' = "down"
    /\ notifying' = FALSE
    /\ wire' = <<>>
    /\ owed' = <<>>
    /\ air' = <<>>
    /\ inbound' = <<>>
    /\ discSaw' = "none"
    /\ task' = [task EXCEPT ![t] = Finished(@, "none")]
    /\ running' = t
    /\ UNCHANGED <<engine, nConn, opsLeft, faultsLeft, nAccepted, callbacks, invoked>>

\* the transport's disconnect raised BleakError or TimeoutError
DisconnectFailed(t, e) ==
    /\ running = NoTask
    /\ task[t].pc = "d_wait"
    /\ e \in {"Connection", "Timeout"}
    /\ Fault
    /\ link' = IF link = "closing" THEN "up" ELSE link
    /\ discSaw' = "none"
    /\ task' = [task EXCEPT ![t] = Finished(@, e)]
    /\ running' = t
    /\ UNCHANGED <<engine, nConn, notifying, wire, device, opsLeft, nAccepted, callbacks, invoked>>


(* ------------------------ the request composers ------------------------ *)

\* variant: the second and third handshake request change places
LoginSequence_Swapped == <<LOGIN_REQUEST, UNKNOWN_2, UNKNOWN_1>>

\* the three handshake requests of async_login, in order
LoginSequence == <<LOGIN_REQUEST, UNKNOWN_1, UNKNOWN_2>>

\* the three teardown requests of async_logout, in order
LogoutSequence == <<UNKNOWN_3, UNKNOWN_4, UNKNOWN_5>>

\* variant: an exception of _async_write_request is passed over and the
\* sequence goes on with its next request
AuthenticatedSequence_Continues(t, types) ==
    /\ running = t
    /\ LET r == task[t] IN
       task' = [task EXCEPT ![t] =
          IF r.seq = Len(types) THEN Finished(r, r.exc)
          ELSE [r EXCEPT !.pc = "w_entry", !.seq = r.seq + 1, !.resp = <<>>,
                         !.exc = "none",
                         !.req = AuthenticatedRequest(types[r.seq + 1], Pin)]]
    /\ UNCHANGED <<engine, link, nConn, notifying, wire, device, running,
                   opsLeft, faultsLeft, ghosts, callbacks, invoked>>

\* a sequence of authenticated requests, each awaited before the next is built:
\* an exception of _async_write_request ends the sequence
AuthenticatedSequence(t, types) ==
    /\ running = t
    /\ LET r == task[t] IN
       task' = [task EXCEPT ![t] =
          IF r.exc # "none" THEN Finished(r, r.exc)
          ELSE IF r.seq = Len(types) THEN Finished(r, "none")
          ELSE [r EXCEPT !.pc = "w_entry", !.seq = r.seq + 1, !.resp = <<>>,
                         !.req = AuthenticatedRequest(types[r.seq + 1], Pin)]]
    /\ UNCHANGED <<engine, link, nConn, notifying, wire, device, running,
                   opsLeft, faultsLeft, ghosts, callbacks, invoked>>

\* async_login
AsyncLogin(t) ==
    /\ task[t].pc = "login"
    /\ AuthenticatedSequence(t, LoginSequence)

\* async_logout
AsyncLogout(t) ==
    /\ task[t].pc = "logout"
    /\ AuthenticatedSequence(t, LogoutSequence)

\* a & b of Python for two non-negative integers
RECURSIVE BitAnd(_, _)
BitAnd(a, b) ==
    IF a = 0 \/ b = 0 THEN 0
    ELSE (a % 2) * (b % 2) + 2 * BitAnd(a \div 2, b \div 2)

\* the conditional expression of Status._from_struct, lines 75-80
OperationModeOf(flags) ==
    IF BitAnd(flags, FAN + AUTO) = FAN + AUTO THEN "AUTO"
    ELSE IF BitAnd(flags, FAN + DRY + HEAT) = FAN + DRY + HEAT THEN "DRY"
    ELSE IF BitAnd(flags, FAN + HEAT) = FAN + HEAT THEN "HEAT"
    ELSE IF BitAnd(flags, FAN + COOL) = FAN + COOL THEN "COOL"
    ELSE IF BitAnd(flags, FAN) # 0 THEN "FAN"
    ELSE "OFF"

\* the fields of _MAStatusResponse and of its base classes
StatusResponseFields ==
    {"message_type", "result", "unknown_1", "unknown_2", "unknown_3",
     "unknown_4", "operation_mode_flags", "max_cool_temperature",
     "min_cool_temperature", "max_heat_temperature", "min_heat_temperature",
     "max_unknown1_temperature", "min_unknown1_temperature",
     "max_unknown2_temperature", "min_unknown2_temperature",
     "max_unknown3_temperature", "min_unknown3_temperature", "cool_setpoint",
     "heat_setpoint", "unknown_setpoint_1", "unknown_setpoint_2",
     "unknown_setpoint_3", "fan_mode", "vane_mode", "unknown_5", "unknown_6",
     "unknown_7", "unknown_8", "hold", "room_temperature", "unknown_9",
     "unknown_10", "unknown_11", "other_flags"}

\* the fields of the dataclass Status
StatusFields ==
    {"max_cool_temperature", "min_cool_temperature", "max_heat_temperature",
     "min_heat_temperature", "cool_setpoint", "heat_setpoint", "auto_setpoint",
     "room_temperature", "fan_mode", "vane_mode", "hold", "operation_mode"}

\* the keyword arguments of the cls(...) call of Status._from_struct, in the
\* order they are evaluated, each with the attribute of the struct it reads
FromStructArguments ==
    <<[kw |-> "max_cool_temperature", attr |-> "max_cool_temperature"],
      [kw |-> "min_cool_temperature", attr |-> "min_cool_temperature"],
      [kw |-> "max_heat_temperature", attr |-> "max_heat_temperature"],
      [kw |-> "min_heat_temperature", attr |-> "min_heat_temperature"],
      [kw |-> "max_auto_temperature", attr |-> "max_auto_temperature"],
      [kw |-> "min_auto_temperature", attr |-> "min_auto_temperature"],
      [kw |-> "cool_setpoint", attr |-> "cool_setpoint"],
      [kw |-> "heat_setpoint", attr |-> "heat_setpoint"],
      [kw |-> "room_temperature", attr |-> "room_temperature"],
      [kw |-> "fan_mode", attr |-> "fan_mode"],
      [kw |-> "vane_mode", attr |-> "vane_mode"],
      [kw |-> "hold", attr |-> "hold"],
      [kw |-> "operation_mode", attr |-> "operation_mode_flags"]>>

\* Status._from_struct for a struct with these fields whose
\* operation_mode_flags is flags: reading an attribute the struct does not
\* have is an AttributeError; a keyword that is no field of Status, or a
\* field left without its keyword, is a TypeError of the constructor
StatusFromStruct(fields, flags) ==
    IF \E i \in DOMAIN FromStructArguments : FromStructArguments[i].attr \notin fields
    THEN [raise |-> "Attribute", status |-> <<>>]
    ELSE IF {FromStructArguments[i].kw : i \in DOMAIN FromStructArguments} # StatusFields
    THEN [raise |-> "Type", status |-> <<>>]
    ELSE [raise |-> "none", status |-> <<OperationModeOf(flags)>>]

\* Status._from_struct(_MAStatusResponse.from_bytes(payload)): a payload
\* shorter than the layout is a StreamError of the parser; the flags are the
\* seventh byte
StatusFromBytes(payload) ==
    IF Len(payload) < StatusResponseLen
    THEN [raise |-> "Stream", status |-> <<>>]
    ELSE StatusFromStruct(StatusResponseFields, payload[7])

\* async_get_status: the request, then the decoding of the response
AsyncGetStatus(t) ==
    /\ running = t
    /\ task[t].pc = "status"
    /\ LET r == task[t]
           s == StatusFromBytes(r.resp)
       IN  IF r.seq = 0
           THEN /\ task' = [task EXCEPT ![t] =
                       [r EXCEPT !.pc = "w_entry", !.seq = 1, !.req = StatusRequest]]
                /\ UNCHANGED last_status
           ELSE IF r.exc # "none"
           THEN /\ task' = [task EXCEPT ![t] = Finished(r, r.exc)]
                /\ UNCHANGED last_status
           ELSE IF s.raise # "none"
           THEN /\ task' = [task EXCEPT ![t] = Finished(r, s.raise)]
                /\ UNCHANGED last_status
           ELSE /\ last_status' = s.status
                /\ task' = [task EXCEPT ![t] = Finished(r, "none")]
    /\ UNCHANGED <<message_id, response_future, fut, framing, versions,
                   connection_lock, gatt_lock, link, nConn, notifying, wire,
                   device, running, opsLeft, faultsLeft, ghosts, callbacks, invoked>>

\* the control requests of async_set_operation_mode(mode): the first match
\* statement (lines 323-333), then the second (335-360), which has no case OFF
ModeRequests(mode) ==
    <<ControlRequest(1, IF mode = "OFF" THEN HEAT ELSE POWER + HEAT)>> \o
    (CASE mode = "AUTO" -> <<ControlRequest(2, POWER + AUTO + HEAT + COOL + DRY)>>
       [] mode = "HEAT" -> <<ControlRequest(2, POWER + HEAT)>>
       [] mode = "COOL" -> <<ControlRequest(2, POWER + COOL)>>
       [] mode = "DRY" -> <<ControlRequest(2, POWER + HEAT + DRY)>>
       [] mode = "FAN" -> <<ControlRequest(2, POWER + FAN)>>
       [] OTHER -> <<>>)

\* a sequence of control requests, each sent by _async_write_control_request,
\* which decodes the response as _MAControlResponse (line 571)
ControlSequence(t, requests) ==
    /\ running = t
    /\ LET r == task[t] IN
       task' = [task EXCEPT ![t] =
          IF r.exc # "none" THEN Finished(r, r.exc)
          ELSE IF r.seq >= 1 /\ Len(r.resp) < ControlResponseLen
          THEN Finished(r, "Stream")
          ELSE IF r.seq = Len(requests) THEN Finished(r, "none")
          ELSE [r EXCEPT !.pc = "w_entry", !.seq = r.seq + 1, !.resp = <<>>,
                         !.req = requests[r.seq + 1]]]
    /\ UNCHANGED <<engine, link, nConn, notifying, wire, device, running,
                   opsLeft, faultsLeft, ghosts, callbacks, invoked>>

\* async_set_operation_mode(operation_mode)
AsyncSetOperationMode(t) ==
    /\ task[t].pc = "mode"
    /\ ControlSequence(t, ModeRequests(task[t].arg))

\* async_set_cool_setpoint(temperature)
AsyncSetCoolSetpoint(t) ==
    /\ task[t].pc = "cool"
    /\ ControlSequence(t, <<ControlRequestOf(0, 1, 0, 0, task[t].arg, 0, 0)>>)

\* async_set_heat_setpoint(temperature)
AsyncSetHeatSetpoint(t) ==
    /\ task[t].pc = "heat"
    /\ ControlSequence(t, <<ControlRequestOf(0, 2, 0, 0, 0, task[t].arg, 0)>>)

\* variant: the fan mode is added as it is, not shifted down
VaneFanMode_Unshifted(vane_mode, fan_mode) == vane_mode * 16 + fan_mode

\* line 574: (vane_mode.value << 4) + (fan_mode.value >> 4)
VaneFanMode(vane_mode, fan_mode) == vane_mode * 16 + fan_mode \div 16

\* async_set_fan_mode(fan_mode), the vane mode left at NONE
AsyncSetFanMode(t) ==
    /\ task[t].pc = "fan"
    /\ ControlSequence(t, <<ControlRequestOf(0, 0, 1, 0, 0, 0,
                                             VaneFanMode(0, task[t].arg))>>)

\* async_set_vane_mode(vane_mode), the fan mode left at NONE
AsyncSetVaneMode(t) ==
    /\ task[t].pc = "vane"
    /\ ControlSequence(t, <<ControlRequestOf(0, 0, 2, 0, 0, 0,
                                             VaneFanMode(task[t].arg, 0))>>)

(* ------------------------ _async_write_request ------------------------- *)

\* variant: the check of line 501 left out
AlreadyAwaiting_Unchecked == FALSE

\* variant: the check of line 501 asks whether the Future is still pending
AlreadyAwaiting_PendingOnly ==
    response_future # NoTask /\ fut[response_future].st = "pending"

\* line 501: another request holds the pending-response slot
AlreadyAwaiting == response_future # NoTask

\* variant: an accepted request leaves the message id as it was
NextMessageId_Kept(id) == id

\* variant: the message id is advanced without the wrap at 7
NextMessageId_NoWrap(id) == id + 1

\* line 512
NextMessageId(id) == IF id < 7 THEN id + 1 ELSE 0

\* _async_write_request up to its first await: the two state checks, the
\* frame, the message id, the pending-response slot, the transport guard
AsyncWriteRequest(t) ==
    /\ running = t
    /\ task[t].pc = "w_entry"
    /\ IF ~IsConnected
       THEN /\ task' = [task EXCEPT ![t] = Sent(@, "State", <<>>)]
            /\ UNCHANGED <<message_id, response_future, fut, gatt_lock,
                           nAccepted, running>>
       ELSE IF AlreadyAwaiting
       THEN /\ task' = [task EXCEPT ![t] = Sent(@, "Already", <<>>)]
            /\ UNCHANGED <<message_id, response_future, fut, gatt_lock,
                           nAccepted, running>>
       ELSE /\ message_id' = NextMessageId(message_id)
            /\ nAccepted' = nAccepted + 1
            /\ response_future' = t
            /\ fut' = [fut EXCEPT ![t] = PendingFut]
            /\ gatt_lock' = IF LockFree(gatt_lock) THEN Locked(gatt_lock, t)
                            ELSE Queued(gatt_lock, t)
            /\ task' = [task EXCEPT ![t] =
                  [@ EXCEPT !.pc = IF LockFree(gatt_lock) THEN "w_write" ELSE "w_lock",
                            !.msg = Frame(task[t].req, message_id), !.ci = 1]]
            /\ running' = NoTask
    /\ UNCHANGED <<framing, versions, last_status, connection_lock, link, nConn,
                   notifying, wire, device, opsLeft, faultsLeft, discSaw,
                   callbacks, invoked>>

\* the transport guard was released to the sender queued for it
WriteLockResume(t) ==
    /\ running = NoTask
    /\ task[t].pc = "w_lock"
    /\ CanWake(gatt_lock, t)
    /\ gatt_lock' = Woken(gatt_lock, t)
    /\ task' = [task EXCEPT ![t] = At(t, "w_write")]
    /\ UNCHANGED <<message_id, response_future, fut, framing, versions,
                   last_status, connection_lock, link, nConn, notifying, wire,
                   device, running, opsLeft, faultsLeft, ghosts, callbacks, invoked>>

\* the bytes are a frame: the declared length and the checksum fit
WellFormed(message) ==
    /\ Len(message) >= 5
    /\ message[1] + 256 * message[2] = Len(message) - 2
    /\ MessageFooter(CrcSum(SubSeq(message, 1, Len(message) - 2)))
          = SubSeq(message, Len(message) - 1, Len(message))

\* the device takes the request from a frame it has received whole, and
\* passes over bytes that are no frame
Received(q, message) ==
    IF WellFormed(message) /\ Len(q) < MaxOwed
    THEN Append(q, FrameType(message))
    ELSE q

\* write_gatt_char returned for one chunk: the next chunk is written, or the
\* guard is released and the sender awaits self._response_future
WriteChunkDone(t) ==
    /\ running = NoTask
    /\ task[t].pc = "w_write"
    /\ link = "up"
    /\ LET r == task[t]
           chunk == Chunk(r.msg, r.ci)
       IN  /\ IF r.ci < NumChunks(r.msg)
              THEN /\ wire' = wire \o chunk
                   /\ task' = [task EXCEPT ![t] = [r EXCEPT !.ci = @ + 1]]
                   /\ UNCHANGED <<gatt_lock, response_future, owed, running>>
              ELSE /\ wire' = <<>>
                   /\ gatt_lock' = Released(gatt_lock)
                   /\ owed' = Received(owed, wire \o chunk)
                   /\ IF response_future = NoTask
                      THEN \* wait_for(None): TypeError, then the finally clause
                           /\ task' = [task EXCEPT ![t] = Sent(r, "Type", <<>>)]
                           /\ running' = t
                           /\ UNCHANGED response_future
                      ELSE /\ task' = [task EXCEPT ![t] =
                                 [r EXCEPT !.pc = "w_resp", !.aw = response_future]]
                           /\ running' = IF fut[response_future].st = "pending"
                                         THEN NoTask ELSE t
                           /\ UNCHANGED response_future
    /\ UNCHANGED <<message_id, fut, framing, versions, last_status,
                   connection_lock, link, nConn, notifying, air, inbound,
                   opsLeft, faultsLeft, ghosts, callbacks, invoked>>

\* write_gatt_char raised BleakError (MARequestException) or wait_for timed it
\* out (MATimeoutException): the slot is cleared, the guard released
WriteChunkFailed(t, e) ==
    /\ running = NoTask
    /\ task[t].pc = "w_write"
    /\ e \in {"Request", "Timeout"}
    /\ IF link = "up" THEN Fault ELSE (NoFault /\ e = "Request")
    /\ response_future' = NoTask
    /\ fut' = [fut EXCEPT ![t] = NoFut]
    /\ gatt_lock' = Released(gatt_lock)
    /\ task' = [task EXCEPT ![t] = Sent(@, e, <<>>)]
    /\ running' = t
    /\ UNCHANGED <<message_id, framing, versions, last_status, connection_lock,
                   link, nConn, notifying, wire, device, opsLeft, ghosts, callbacks, invoked>>

\* variant: the message type of the response is not compared with the request's
Outcome_TypeUnchecked(payload, message) ==
    IF Len(payload) < ResponseLen THEN "Response"
    ELSE IF payload[2] = SUCCESS THEN "none"
    ELSE "Response"

\* lines 534-543: what the response payload makes of the request
Outcome(payload, message) ==
    IF Len(payload) < ResponseLen THEN "Response"
    ELSE IF payload[1] # FrameType(message) % 256 THEN "Response"
    ELSE IF payload[2] = SUCCESS THEN "none"
    ELSE "Response"

\* the device can still deliver a complete message
CanAnswer == link = "up" /\ notifying /\ (owed # <<>> \/ air # <<>>)

\* variant: the response is awaited without a timeout
ResponseTimeout_Never(t) == FALSE /\ UNCHANGED vars

\* the command timeout expired while the sender awaited the response: the
\* timeout cancels the task, and with it a Future that is still pending
ResponseTimeout(t) ==
    /\ running = NoTask
    /\ task[t].pc = "w_resp"
    /\ IF CanAnswer \/ fut[task[t].aw].st # "pending" THEN Fault ELSE NoFault
    /\ fut' = [fut EXCEPT ![task[t].aw] =
                 IF @.st = "pending" THEN [st |-> "cancelled", val |-> <<>>] ELSE @]
    /\ task' = [task EXCEPT ![t] = At(t, "w_tmo")]
    /\ UNCHANGED <<message_id, response_future, framing, versions, last_status,
                   connection_lock, gatt_lock, link, nConn, notifying, wire,
                   device, running, opsLeft, ghosts, callbacks, invoked>>

\* the sender wakes up: response, connection closed, timeout or cancellation;
\* the finally clause empties the pending-response slot
ResponseResume(t) ==
    /\ task[t].pc \in {"w_resp", "w_tmo", "w_can"}
    /\ \/ running = t
       \/ /\ running = NoTask
          /\ task[t].pc = "w_resp" => fut[task[t].aw].st # "pending"
    /\ LET r == task[t]
           f == fut[r.aw]
           e == IF r.pc = "w_tmo" THEN "Timeout"
                ELSE IF r.pc = "w_can" THEN "Cancelled"
                ELSE IF f.st = "exception" THEN "Connection"
                ELSE IF f.st = "result" THEN Outcome(f.val, r.msg)
                ELSE "Cancelled"
       IN  task' = [task EXCEPT ![t] =
                      Sent(r, e, IF e = "none" THEN f.val ELSE <<>>)]
    /\ response_future' = NoTask
    /\ fut' = [fut EXCEPT ![t] = NoFut]
    /\ running' = t
    /\ UNCHANGED <<message_id, framing, versions, last_status, connection_lock,
                   gatt_lock, link, nConn, notifying, wire, device, opsLeft,
                   faultsLeft, ghosts, callbacks, invoked>>


(* ----------------------------- cancellation ---------------------------- *)

\* the caller is cancelled while it waits for the transport guard or for a
\* chunk write: CancelledError passes both except clauses of the write
CancelWrite(t) ==
    /\ running = NoTask
    /\ task[t].pc \in {"w_lock", "w_write"}
    /\ Fault
    /\ gatt_lock' = IF task[t].pc = "w_lock" THEN Dequeued(gatt_lock, t)
                    ELSE Released(gatt_lock)
    /\ task' = [task EXCEPT ![t] = Sent(@, "Cancelled", <<>>)]
    /\ running' = t
    /\ UNCHANGED <<message_id, response_future, fut, framing, versions,
                   last_status, connection_lock, link, nConn, notifying, wire,
                   device, opsLeft, ghosts, callbacks, invoked>>

\* the caller is cancelled while it awaits the response
CancelResponse(t) ==
    /\ running = NoTask
    /\ task[t].pc = "w_resp"
    /\ Fault
    /\ fut' = [fut EXCEPT ![task[t].aw] =
                 IF @.st = "pending" THEN [st |-> "cancelled", val |-> <<>>] ELSE @]
    /\ task' = [task EXCEPT ![t] = At(t, "w_can")]
    /\ UNCHANGED <<message_id, response_future, framing, versions, last_status,
                   connection_lock, gatt_lock, link, nConn, notifying, wire,
                   device, running, opsLeft, ghosts, callbacks, invoked>>

\* the caller is cancelled inside async_connect
CancelConnect(t) ==
    /\ running = NoTask
    /\ task[t].pc \in {"c_conn", "c_notify", "c_rlock", "c_read"}
    /\ Fault
    /\ nConn' = IF task[t].pc = "c_conn" THEN nConn - 1 ELSE nConn
    /\ gatt_lock' = IF task[t].pc = "c_rlock" THEN Dequeued(gatt_lock, t)
                    ELSE IF task[t].pc = "c_read" THEN Released(gatt_lock)
                    ELSE gatt_lock
    /\ task' = [task EXCEPT ![t] = Finished(@, "Cancelled")]
    /\ running' = t
    /\ UNCHANGED <<message_id, response_future, fut, framing, versions,
                   last_status, connection_lock, link, notifying, wire, device,
                   opsLeft, ghosts, callbacks, invoked>>

\* the caller is cancelled while the transport disconnects
CancelDisconnect(t) ==
    /\ running = NoTask
    /\ task[t].pc = "d_wait"
    /\ Fault
    /\ link' = IF link = "closing" THEN "up" ELSE link
    /\ discSaw' = "none"
    /\ task' = [task EXCEPT ![t] = Finished(@, "Cancelled")]
    /\ running' = t
    /\ UNCHANGED <<engine, nConn, notifying, wire, device, opsLeft, nAccepted, callbacks, invoked>>

(* ------------------------- device and transport ------------------------ *)

\* the result codes of _MAResult
Results == {SUCCESS, BAD_PIN, IN_MENUS, UNKNOWN_3_BAD_PIN}

\* the device answers the oldest request it has received
DeviceRespond(result) ==
    /\ running = NoTask
    /\ link = "up"
    /\ owed # <<>>
    /\ air = <<>>
    /\ result \in Results
    /\ IF result = SUCCESS THEN NoFault ELSE Fault
    /\ air' = InboundFrame(ResponsePayload(Head(owed), result))
    /\ inbound' = air'
    /\ owed' = Tail(owed)
    /\ UNCHANGED <<engine, link, nConn, notifying, wire, task, running, opsLeft,
                   ghosts, callbacks, invoked>>

\* variant: the declared length is taken as it comes, without the ceiling
Reassembled_NoCeiling(len, buf, data) ==
    IF len = 0
    THEN IF Len(data) < 3 THEN [raise |-> TRUE, len |-> len, buf |-> buf]
         ELSE [raise |-> FALSE, len |-> data[1] + 256 * data[2],
               buf |-> SubSeq(data, 3, Len(data))]
    ELSE [raise |-> FALSE, len |-> len, buf |-> buf \o data]

\* _on_message_received, lines 599-607: the header of a new message, or the
\* fragment appended; "raise" leaves the reassembly state as it was
Reassembled(len, buf, data) ==
    IF len = 0
    THEN IF Len(data) < 3 THEN [raise |-> TRUE, len |-> len, buf |-> buf]
         ELSE IF data[1] + 256 * data[2] > MaxReceiveLength
         THEN [raise |-> TRUE, len |-> len, buf |-> buf]
         ELSE [raise |-> FALSE, len |-> data[1] + 256 * data[2],
               buf |-> SubSeq(data, 3, Len(data))]
    ELSE [raise |-> FALSE, len |-> len, buf |-> buf \o data]

\* variant: the two checksum bytes are left on the payload
PayloadOf_WithChecksum(buf) == SubSeq(buf, 2, Len(buf))

\* receive_buffer[1:-2]
PayloadOf(buf) == SubSeq(buf, 2, Len(buf) - 2)

\* variant: an unsolicited message is refused before the reassembly is reset
OnMessageReceived_RefusedEarly(data) ==
    LET a == Reassembled(receive_length, receive_buffer, data) IN
    IF a.raise \/ Len(a.buf) # a.len \/ response_future = NoTask
    THEN /\ receive_length' = a.len
         /\ receive_buffer' = a.buf
         /\ UNCHANGED fut
    ELSE /\ receive_length' = 0
         /\ receive_buffer' = <<>>
         /\ IF fut[response_future].st = "pending"
            THEN fut' = [fut EXCEPT ![response_future] =
                           [st |-> "result", val |-> PayloadOf(a.buf)]]
            ELSE UNCHANGED fut

\* variant: a message counts as solicited only once the sender awaits it
OnMessageReceived_AwaitedOnly(data) ==
    LET a == Reassembled(receive_length, receive_buffer, data) IN
    IF a.raise \/ Len(a.buf) # a.len
    THEN /\ receive_length' = a.len
         /\ receive_buffer' = a.buf
         /\ UNCHANGED fut
    ELSE /\ receive_length' = 0
         /\ receive_buffer' = <<>>
         /\ IF /\ response_future # NoTask
               /\ fut[response_future].st = "pending"
               /\ task[response_future].pc = "w_resp"
            THEN fut' = [fut EXCEPT ![response_future] =
                           [st |-> "result", val |-> PayloadOf(a.buf)]]
            ELSE UNCHANGED fut

\* _on_message_received(data)
OnMessageReceived(data) ==
    LET a == Reassembled(receive_length, receive_buffer, data) IN
    IF a.raise \/ Len(a.buf) # a.len
    THEN /\ receive_length' = a.len
         /\ receive_buffer' = a.buf
         /\ UNCHANGED fut
    ELSE /\ receive_length' = 0
         \* the bytes stay in _receive_buffer, where nothing reads them before
         \* line 605 replaces them with the next header's: they are dropped here
         /\ receive_buffer' = <<>>
         /\ IF response_future # NoTask /\ fut[response_future].st = "pending"
            THEN fut' = [fut EXCEPT ![response_future] =
                           [st |-> "result", val |-> PayloadOf(a.buf)]]
            ELSE \* InvalidStateError of set_result, or MAInternalException
                 UNCHANGED fut

\* a fragment the device may notify next
Fragment == SubSeq(air, 1, IF Len(air) < ChunkSize THEN Len(air) ELSE ChunkSize)

\* the transport delivers one notification
Notify ==
    /\ running = NoTask
    /\ link = "up"
    /\ notifying
    /\ air # <<>>
    /\ air' = SubSeq(air, Len(Fragment) + 1, Len(air))
    /\ inbound' = IF air' = <<>> THEN <<>> ELSE inbound
    /\ OnMessageReceived(Fragment)
    /\ UNCHANGED <<message_id, response_future, versions, last_status,
                   connection_lock, gatt_lock, link, nConn, notifying, wire,
                   owed, task, running, opsLeft, faultsLeft, ghosts, callbacks, invoked>>

\* the transport delivers the next n bytes of the frame as one notification
NotifyFragment(n) ==
    /\ running = NoTask
    /\ link = "up"
    /\ notifying
    /\ n \in 1..Len(air)
    /\ air' = SubSeq(air, n + 1, Len(air))
    /\ inbound' = IF air' = <<>> THEN <<>> ELSE inbound
    /\ OnMessageReceived(SubSeq(air, 1, n))
    /\ UNCHANGED <<message_id, response_future, versions, last_status,
                   connection_lock, gatt_lock, link, nConn, notifying, wire,
                   owed, task, running, opsLeft, faultsLeft, ghosts, callbacks, invoked>>

\* the link is lost: _on_disconnected only publishes DISCONNECTED
OnDisconnected ==
    /\ running = NoTask
    /\ link = "up"
    /\ Fault
    /\ link' = "down"
    /\ notifying' = FALSE
    /\ wire' = <<>>
    /\ owed' = <<>>
    /\ air' = <<>>
    /\ inbound' = <<>>
    /\ UNCHANGED <<engine, nConn, task, running, opsLeft, ghosts, callbacks, invoked>>


(* ---------------------- the scoped-connection helper ------------------- *)

\* the bodies run inside `async with thermostat`: the status query of the
\* update loop, and a change of the operation mode (to HEAT)
Bodies == {<<"status">>, <<"mode">>}

\* variant: the session ends without the release of line 453
SessionEnd_GuardKept(t) ==
    /\ UNCHANGED connection_lock
    /\ task' = [task EXCEPT ![t] = IdleTask]
    /\ running' = NoTask

\* the session is over: the task is free for another call
SessionEnd(t) ==
    /\ connection_lock' = Released(connection_lock)
    /\ task' = [task EXCEPT ![t] = IdleTask]
    /\ running' = NoTask

\* __aenter__, line 414: the connection guard, then async_connect is called
AEnter(t) ==
    /\ running = t
    /\ task[t].pc = "enter"
    /\ IF LockFree(connection_lock)
       THEN /\ connection_lock' = Locked(connection_lock, t)
            /\ task' = [task EXCEPT ![t] =
                  [@ EXCEPT !.pc = "c_entry", !.sess = "enter", !.mid = "connect"]]
            /\ UNCHANGED running
       ELSE /\ connection_lock' = Queued(connection_lock, t)
            /\ task' = [task EXCEPT ![t] = At(t, "s_lock")]
            /\ running' = NoTask
    /\ UNCHANGED <<message_id, response_future, fut, framing, versions,
                   last_status, gatt_lock, link, nConn, notifying, wire, device,
                   opsLeft, faultsLeft, ghosts, callbacks, invoked>>

\* the connection guard was released to the session queued for it
AEnterResume(t) ==
    /\ running = NoTask
    /\ task[t].pc = "s_lock"
    /\ CanWake(connection_lock, t)
    /\ connection_lock' = Woken(connection_lock, t)
    /\ task' = [task EXCEPT ![t] =
          [@ EXCEPT !.pc = "c_entry", !.sess = "enter", !.mid = "connect"]]
    /\ running' = t
    /\ UNCHANGED <<message_id, response_future, fut, framing, versions,
                   last_status, gatt_lock, link, nConn, notifying, wire, device,
                   opsLeft, faultsLeft, ghosts, callbacks, invoked>>

\* the caller is cancelled while it waits for the connection guard
CancelEnter(t) ==
    /\ running = NoTask
    /\ task[t].pc = "s_lock"
    /\ Fault
    /\ connection_lock' = Dequeued(connection_lock, t)
    /\ task' = [task EXCEPT ![t] = IdleTask]
    /\ UNCHANGED <<message_id, response_future, fut, framing, versions,
                   last_status, gatt_lock, link, nConn, notifying, wire, device,
                   running, opsLeft, ghosts, callbacks, invoked>>

\* __aenter__, lines 415-419: async_login follows a connect that returned;
\* `finally: return self` ends the entry whatever was raised
AEnterReturn(t) ==
    /\ running = t
    /\ task[t].pc = "ret"
    /\ task[t].sess = "enter"
    /\ LET r == task[t] IN
       task' = [task EXCEPT ![t] =
          IF r.mid = "connect" /\ r.exc = "none"
          THEN [r EXCEPT !.pc = "login", !.mid = "login", !.seq = 0]
          ELSE [r EXCEPT !.pc = "body", !.sess = "body", !.mid = "none",
                         !.exc = "none", !.bi = 1]]
    /\ UNCHANGED <<engine, link, nConn, notifying, wire, device, running,
                   opsLeft, faultsLeft, ghosts, callbacks, invoked>>

\* the body of the `async with`: its next operation, or its normal end
Body(t) ==
    /\ running = t
    /\ task[t].pc = "body"
    /\ LET r == task[t] IN
       task' = [task EXCEPT ![t] =
          IF r.bi <= Len(r.body)
          THEN [r EXCEPT !.pc = r.body[r.bi], !.mid = r.body[r.bi], !.seq = 0]
          ELSE [r EXCEPT !.pc = "exit", !.mid = "none", !.xv = "none"]]
    /\ UNCHANGED <<engine, link, nConn, notifying, wire, device, running,
                   opsLeft, faultsLeft, ghosts, callbacks, invoked>>

\* an operation of the body returned, or raised and so ended the body;
\* __aexit__ only asks whether exc_value is None
BodyReturn(t) ==
    /\ running = t
    /\ task[t].pc = "ret"
    /\ task[t].sess = "body"
    /\ LET r == task[t] IN
       task' = [task EXCEPT ![t] =
          IF r.exc = "none"
          THEN [r EXCEPT !.pc = "body", !.mid = "none", !.bi = r.bi + 1]
          ELSE [r EXCEPT !.pc = "exit", !.mid = "none", !.xv = "raised",
                         !.exc = "none"]]
    /\ UNCHANGED <<engine, link, nConn, notifying, wire, device, running,
                   opsLeft, faultsLeft, ghosts, callbacks, invoked>>

\* __aexit__, lines 438-442 and 450: logout is called when connected,
\* otherwise the guard is released at once
AExit(t) ==
    /\ running = t
    /\ task[t].pc = "exit"
    /\ IF IsConnected
       THEN /\ task' = [task EXCEPT ![t] =
                  [@ EXCEPT !.pc = "logout", !.sess = "exit", !.mid = "logout",
                            !.seq = 0]]
            /\ UNCHANGED <<connection_lock, running>>
       ELSE SessionEnd(t)
    /\ UNCHANGED <<message_id, response_future, fut, framing, versions,
                   last_status, gatt_lock, link, nConn, notifying, wire, device,
                   opsLeft, faultsLeft, ghosts, callbacks, invoked>>

\* variant: __aexit__ lets every exception of logout and disconnect pass
Swallowed_Never(xv, e) == FALSE

\* __aexit__ with exc_value set swallows an Exception (not CancelledError)
Swallowed(xv, e) == xv # "none" /\ e # "Cancelled"

\* __aexit__, lines 440-453: after logout comes disconnect, unless logout
\* raised and is not swallowed; then the connection guard is released
AExitReturn(t) ==
    /\ running = t
    /\ task[t].pc = "ret"
    /\ task[t].sess = "exit"
    /\ LET r == task[t] IN
       IF r.mid = "logout" /\ (r.exc = "none" \/ Swallowed(r.xv, r.exc))
       THEN /\ task' = [task EXCEPT ![t] =
                  [r EXCEPT !.pc = "d_entry", !.mid = "disconnect", !.exc = "none"]]
            /\ UNCHANGED <<connection_lock, running>>
       ELSE SessionEnd(t)
    /\ UNCHANGED <<message_id, response_future, fut, framing, versions,
                   last_status, gatt_lock, link, nConn, notifying, wire, device,
                   opsLeft, faultsLeft, ghosts, callbacks, invoked>>

(* ------------------------------ callers -------------------------------- *)

\* the callers are idle and nothing in the engine refers to either of them:
\* what one may do next the other may do as well
Interchangeable ==
    /\ \A u \in Tasks : task[u].pc = "idle"
    /\ response_future = NoTask

\* a caller starts a call on the engine; of interchangeable callers the
\* first stands for both
Call(t, top, pc, body) ==
    /\ running = NoTask
    /\ task[t].pc = "idle"
    /\ Interchangeable => t = "t1"
    /\ opsLeft > 0
    /\ opsLeft' = opsLeft - 1
    /\ task' = [task EXCEPT ![t] =
          [IdleTask EXCEPT !.pc = pc, !.top = top, !.body = body,
                           !.arg = IF body = <<"mode">> THEN "HEAT" ELSE 0,
                           !.mid = IF top = "session" THEN "none" ELSE top]]
    /\ running' = t
    /\ UNCHANGED <<engine, link, nConn, notifying, wire, device, faultsLeft,
                   ghosts, callbacks, invoked>>

\* `async with thermostat: body` (__init__.py, coordinator.py, climate.py)
CallSession(t, body) == body \in Bodies /\ Call(t, "session", "enter", body)

\* direct calls of the public coroutines
CallConnect(t) == Call(t, "connect", "c_entry", <<>>)
CallDisconnect(t) == Call(t, "disconnect", "d_entry", <<>>)
CallGetStatus(t) == Call(t, "status", "status", <<>>)

\* a direct call returned or raised to its caller
DirectReturn(t) ==
    /\ running = t
    /\ task[t].pc = "ret"
    /\ task[t].top # "session"
    /\ task' = [task EXCEPT ![t] = IdleTask]
    /\ running' = NoTask
    /\ UNCHANGED <<engine, link, nConn, notifying, wire, device, opsLeft,
                   faultsLeft, ghosts, callbacks, invoked>>

(* --------------------------- specification ----------------------------- *)

Next ==
    \/ \E t \in Tasks : \E b \in Bodies : CallSession(t, b)
    \/ \E t \in Tasks : CallConnect(t)
    \/ \E t \in Tasks : CallDisconnect(t)
    \/ \E t \in Tasks : CallGetStatus(t)
    \/ \E t \in Tasks : DirectReturn(t)
    \/ \E t \in Tasks : AEnter(t)
    \/ \E t \in Tasks : AEnterResume(t)
    \/ \E t \in Tasks : AEnterReturn(t)
    \/ \E t \in Tasks : Body(t)
    \/ \E t \in Tasks : BodyReturn(t)
    \/ \E t \in Tasks : AExit(t)
    \/ \E t \in Tasks : AExitReturn(t)
    \/ \E t \in Tasks : AsyncConnect(t)
    \/ \E t \in Tasks : ConnectDone(t)
    \/ \E t \in Tasks : \E e \in {"Connection", "Timeout"} : ConnectFailed(t, e)
    \/ \E t \in Tasks : StartNotifyDone(t)
    \/ \E t \in Tasks : StartNotifyFailed(t)
    \/ \E t \in Tasks : ReadCharResume(t)
    \/ \E t \in Tasks : ReadDone(t)
    \/ \E t \in Tasks : \E e \in {"Request", "Timeout"} : ReadFailed(t, e)
    \/ \E t \in Tasks : AsyncDisconnect(t)
    \/ \E t \in Tasks : DisconnectDone(t)
    \/ \E t \in Tasks : \E e \in {"Connection", "Timeout"} : DisconnectFailed(t, e)
    \/ \E t \in Tasks : AsyncLogin(t)
    \/ \E t \in Tasks : AsyncLogout(t)
    \/ \E t \in Tasks : AsyncGetStatus(t)
    \/ \E t \in Tasks : AsyncSetOperationMode(t)
    \/ \E t \in Tasks : AsyncWriteRequest(t)
    \/ \E t \in Tasks : WriteLockResume(t)
    \/ \E t \in Tasks : WriteChunkDone(t)
    \/ \E t \in Tasks : \E e \in {"Request", "Timeout"} : WriteChunkFailed(t, e)
    \/ \E t \in Tasks : ResponseTimeout(t)
    \/ \E t \in Tasks : ResponseResume(t)
    \/ \E t \in Tasks : CancelWrite(t)
    \/ \E t \in Tasks : CancelResponse(t)
    \/ \E t \in Tasks : CancelConnect(t)
    \/ \E t \in Tasks : CancelDisconnect(t)
    \/ \E t \in Tasks : CancelEnter(t)
    \/ \E r \in Results : DeviceRespond(r)
    \/ Notify
    \/ OnDisconnected

Spec == Init /\ [][Next]_vars

\* what the event loop does for a caller that is ready to run, and what the
\* transport does for a caller that awaits it: every step of the engine but
\* the start of a new call and the cancellation of the caller
TaskStep(t) ==
    \/ DirectReturn(t)
    \/ AEnter(t) \/ AEnterResume(t) \/ AEnterReturn(t)
    \/ Body(t) \/ BodyReturn(t)
    \/ AExit(t) \/ AExitReturn(t)
    \/ AsyncConnect(t) \/ ConnectDone(t)
    \/ \E e \in {"Connection", "Timeout"} : ConnectFailed(t, e)
    \/ StartNotifyDone(t) \/ StartNotifyFailed(t)
    \/ ReadCharResume(t) \/ ReadDone(t)
    \/ \E e \in {"Request", "Timeout"} : ReadFailed(t, e)
    \/ AsyncDisconnect(t) \/ DisconnectDone(t)
    \/ \E e \in {"Connection", "Timeout"} : DisconnectFailed(t, e)
    \/ AsyncLogin(t) \/ AsyncLogout(t) \/ AsyncGetStatus(t)
    \/ AsyncSetOperationMode(t)
    \/ AsyncWriteRequest(t) \/ WriteLockResume(t) \/ WriteChunkDone(t)
    \/ \E e \in {"Request", "Timeout"} : WriteChunkFailed(t, e)
    \/ ResponseTimeout(t) \/ ResponseResume(t)

\* the callers only run sessions, each with the status query of the update
\* loop as its body
NextSessions ==
    \/ \E t \in Tasks : CallSession(t, <<"status">>)
    \/ \E t \in Tasks : AEnter(t)
    \/ \E t \in Tasks : AEnterResume(t)
    \/ \E t \in Tasks : AEnterReturn(t)
    \/ \E t \in Tasks : Body(t)
    \/ \E t \in Tasks : BodyReturn(t)
    \/ \E t \in Tasks : AExit(t)
    \/ \E t \in Tasks : AExitReturn(t)
    \/ \E t \in Tasks : AsyncConnect(t)
    \/ \E t \in Tasks : ConnectDone(t)
    \/ \E t \in Tasks : \E e \in {"Connection", "Timeout"} : ConnectFailed(t, e)
    \/ \E t \in Tasks : StartNotifyDone(t)
    \/ \E t \in Tasks : StartNotifyFailed(t)
    \/ \E t \in Tasks : ReadDone(t)
    \/ \E t \in Tasks : \E e \in {"Request", "Timeout"} : ReadFailed(t, e)
    \/ \E t \in Tasks : AsyncDisconnect(t)
    \/ \E t \in Tasks : DisconnectDone(t)
    \/ \E t \in Tasks : \E e \in {"Connection", "Timeout"} : DisconnectFailed(t, e)
    \/ \E t \in Tasks : AsyncLogin(t)
    \/ \E t \in Tasks : AsyncLogout(t)
    \/ \E t \in Tasks : AsyncGetStatus(t)
    \/ \E t \in Tasks : AsyncWriteRequest(t)
    \/ \E t \in Tasks : WriteChunkDone(t)
    \/ \E t \in Tasks : \E e \in {"Request", "Timeout"} : WriteChunkFailed(t, e)
    \/ \E t \in Tasks : ResponseTimeout(t)
    \/ \E t \in Tasks : ResponseResume(t)
    \/ \E t \in Tasks : CancelWrite(t)
    \/ \E t \in Tasks : CancelResponse(t)
    \/ \E t \in Tasks : CancelConnect(t)
    \/ \E t \in Tasks : CancelDisconnect(t)
    \/ \E t \in Tasks : CancelEnter(t)
    \/ \E r \in Results : DeviceRespond(r)
    \/ Notify
    \/ OnDisconnected

\* the sessions under an event loop that does not stop while something can
\* go on: a caller that is ready runs, every transport operation returns,
\* fails or times out, and the device answers and notifies
SpecLive ==
    /\ Init
    /\ [][NextSessions]_vars
    /\ WF_vars((\E t \in Tasks : TaskStep(t)) \/ Notify \/ DeviceRespond(SUCCESS))

\* the callers connect, query the status and disconnect by direct calls
NextSends ==
    \/ \E t \in Tasks : CallConnect(t)
    \/ \E t \in Tasks : CallDisconnect(t)
    \/ \E t \in Tasks : CallGetStatus(t)
    \/ \E t \in Tasks : DirectReturn(t)
    \/ \E t \in Tasks : AsyncConnect(t)
    \/ \E t \in Tasks : ConnectDone(t)
    \/ \E t \in Tasks : \E e \in {"Connection", "Timeout"} : ConnectFailed(t, e)
    \/ \E t \in Tasks : StartNotifyDone(t)
    \/ \E t \in Tasks : StartNotifyFailed(t)
    \/ \E t \in Tasks : ReadCharResume(t)
    \/ \E t \in Tasks : ReadDone(t)
    \/ \E t \in Tasks : \E e \in {"Request", "Timeout"} : ReadFailed(t, e)
    \/ \E t \in Tasks : AsyncDisconnect(t)
    \/ \E t \in Tasks : DisconnectDone(t)
    \/ \E t \in Tasks : \E e \in {"Connection", "Timeout"} : DisconnectFailed(t, e)
    \/ \E t \in Tasks : AsyncGetStatus(t)
    \/ \E t \in Tasks : AsyncWriteRequest(t)
    \/ \E t \in Tasks : WriteLockResume(t)
    \/ \E t \in Tasks : WriteChunkDone(t)
    \/ \E t \in Tasks : \E e \in {"Request", "Timeout"} : WriteChunkFailed(t, e)
    \/ \E t \in Tasks : ResponseTimeout(t)
    \/ \E t \in Tasks : ResponseResume(t)
    \/ \E t \in Tasks : CancelWrite(t)
    \/ \E t \in Tasks : CancelResponse(t)
    \/ \E t \in Tasks : CancelConnect(t)
    \/ \E t \in Tasks : CancelDisconnect(t)
    \/ \E r \in Results : DeviceRespond(r)
    \/ Notify
    \/ OnDisconnected

\* the direct calls under an event loop that does not stop while something
\* can go on
SpecSends ==
    /\ Init
    /\ [][NextSends]_vars
    /\ WF_vars((\E t \in Tasks : TaskStep(t)) \/ Notify \/ DeviceRespond(SUCCESS))

(* ----------------- reassembly of one inbound message ------------------- *)

\* a payload of n bytes as the device may send it: a response header and as
\* many bytes of body as the length asks for
InboundPayload(n) ==
    SubSeq(ResponsePayload(STATUS_REQUEST, SUCCESS) \o StatusBody, 1, n)

\* a status query is in flight on a connected engine: the request was
\* written, the sender awaits self._response_future (line 533)
AwaitingResponse ==
    [IdleTask EXCEPT !.pc = "w_resp", !.top = "status", !.mid = "status",
                     !.seq = 1, !.msg = Frame(StatusRequest, 0), !.ci = 1,
                     !.req = StatusRequest, !.aw = "t1"]

\* the device starts to notify a frame of any payload length, which the
\* transport may cut into notifications at any byte
InitReassembly ==
    /\ message_id = 1
    /\ response_future = "t1"
    /\ fut = [t \in Tasks |-> IF t = "t1" THEN PendingFut ELSE NoFut]
    /\ receive_length = 0
    /\ receive_buffer = <<>>
    /\ versions = TRUE
    /\ last_status = <<>>
    /\ connection_lock = FreeLock
    /\ gatt_lock = FreeLock
    /\ link = "up"
    /\ nConn = 0
    /\ notifying = TRUE
    /\ wire = <<>>
    /\ owed = <<>>
    /\ \E n \in 0..MaxPayload : inbound = InboundFrame(InboundPayload(n))
    /\ air = inbound
    /\ task = [t \in Tasks |-> IF t = "t1" THEN AwaitingResponse ELSE IdleTask]
    /\ running = NoTask
    /\ opsLeft = 0
    /\ faultsLeft = 0
    /\ nAccepted = 1
    /\ discSaw = "none"
    /\ callbacks = [e \in Events |-> <<>>]
    /\ invoked = <<>>

NextReassembly ==
    \/ \E n \in 1..(MaxPayload + 5) : NotifyFragment(n)
    \/ \E t \in Tasks : ResponseResume(t)

SpecReassembly == InitReassembly /\ [][NextReassembly]_vars

(* --------------- one operation on a connected engine ------------------- *)

\* the values of MAFanMode and of MAVaneMode
FanModes == {0, 16, 32, 48, 64}
VaneModes == {0, 1, 2, 3, 5, 6, 7}

\* the temperatures a caller may ask for, in steps
Temperatures == (2 * MA_MIN_TEMP * TempGrid)..(2 * MA_MAX_TEMP * TempGrid)

\* the combinations of the bits of _MAOperationModeFlags
FlagCombinations == 0..(POWER + FAN + COOL + HEAT + DRY + AUTO)

\* the public coroutines that send requests, with the arguments they take
Operations ==
    ({"login", "logout", "status"} \X {0}) \cup ({"mode"} \X OperationModes)
    \cup ({"cool", "heat"} \X Temperatures)
    \cup ({"fan"} \X FanModes) \cup ({"vane"} \X VaneModes)

\* a caller invokes one of them
CallOperation(t, op) ==
    /\ running = NoTask
    /\ task[t].pc = "idle"
    /\ Interchangeable => t = "t1"
    /\ op \in Operations
    /\ opsLeft > 0
    /\ opsLeft' = opsLeft - 1
    /\ task' = [task EXCEPT ![t] =
          [IdleTask EXCEPT !.pc = op[1], !.top = op[1], !.mid = op[1],
                           !.arg = op[2]]]
    /\ running' = t
    /\ UNCHANGED <<engine, link, nConn, notifying, wire, device, faultsLeft,
                   ghosts, callbacks, invoked>>

\* the device answers a status request with SUCCESS and any operation mode flags
DeviceRespondStatus(flags) ==
    /\ running = NoTask
    /\ link = "up"
    /\ owed # <<>>
    /\ Head(owed) = STATUS_REQUEST
    /\ air = <<>>
    /\ flags \in FlagCombinations
    /\ air' = InboundFrame([ResponsePayload(STATUS_REQUEST, SUCCESS) EXCEPT ![7] = flags])
    /\ inbound' = air'
    /\ owed' = Tail(owed)
    /\ UNCHANGED <<engine, link, nConn, notifying, wire, task, running, opsLeft,
                   faultsLeft, ghosts, callbacks, invoked>>

\* the device answers with the first n bytes only of the response payload
DeviceRespondShort(n) ==
    /\ running = NoTask
    /\ link = "up"
    /\ owed # <<>>
    /\ air = <<>>
    /\ n \in 0..(Len(ResponsePayload(Head(owed), SUCCESS)) - 1)
    /\ Fault
    /\ air' = InboundFrame(SubSeq(ResponsePayload(Head(owed), SUCCESS), 1, n))
    /\ inbound' = air'
    /\ owed' = Tail(owed)
    /\ UNCHANGED <<engine, link, nConn, notifying, wire, task, running, opsLeft,
                   ghosts, callbacks, invoked>>

\* the engine is connected and idle, as async_connect leaves it
InitOperations ==
    /\ message_id = 0
    /\ response_future = NoTask
    /\ fut = [t \in Tasks |-> NoFut]
    /\ receive_length = 0
    /\ receive_buffer = <<>>
    /\ versions = TRUE
    /\ last_status = <<>>
    /\ connection_lock = FreeLock
    /\ gatt_lock = FreeLock
    /\ link = "up"
    /\ nConn = 0
    /\ notifying = TRUE
    /\ wire = <<>>
    /\ owed = <<>>
    /\ air = <<>>
    /\ inbound = <<>>
    /\ task = [t \in Tasks |-> IdleTask]
    /\ running = NoTask
    /\ opsLeft = 1
    /\ faultsLeft = 1
    /\ nAccepted = 0
    /\ discSaw = "none"
    /\ callbacks = [e \in Events |-> <<>>]
    /\ invoked = <<>>

NextOperations ==
    \/ \E t \in Tasks : \E op \in Operations : CallOperation(t, op)
    \/ \E t \in Tasks : DirectReturn(t)
    \/ \E t \in Tasks : AsyncLogin(t)
    \/ \E t \in Tasks : AsyncLogout(t)
    \/ \E t \in Tasks : AsyncGetStatus(t)
    \/ \E t \in Tasks : AsyncSetOperationMode(t)
    \/ \E t \in Tasks : AsyncSetCoolSetpoint(t)
    \/ \E t \in Tasks : AsyncSetHeatSetpoint(t)
    \/ \E t \in Tasks : AsyncSetFanMode(t)
    \/ \E t \in Tasks : AsyncSetVaneMode(t)
    \/ \E t \in Tasks : AsyncWriteRequest(t)
    \/ \E t \in Tasks : WriteChunkDone(t)
    \/ \E t \in Tasks : \E e \in {"Request", "Timeout"} : WriteChunkFailed(t, e)
    \/ \E t \in Tasks : ResponseResume(t)
    \/ \E r \in Results : DeviceRespond(r)
    \/ \E f \in FlagCombinations : DeviceRespondStatus(f)
    \/ \E n \in 0..StatusResponseLen : DeviceRespondShort(n)
    \/ Notify

SpecOperations == InitOperations /\ [][NextOperations]_vars

(* ------------------------------- events -------------------------------- *)

\* register_callback(event, callback); a callback is a function that is a
\* coroutine function or not and that raises when called or not
RegisterCallback(e, h) ==
    /\ running = NoTask
    /\ h \in [async : BOOLEAN, raises : BOOLEAN]
    /\ \A i \in 1..Len(callbacks[e]) : callbacks[e][i] # h
    /\ Len(callbacks["CONNECTED"]) + Len(callbacks["DISCONNECTED"])
          + Len(callbacks["STATUS_RECEIVED"]) < MaxHandlers
    /\ callbacks' = [callbacks EXCEPT ![e] = Append(@, h)]
    /\ UNCHANGED <<engine, link, nConn, notifying, wire, device, task, running,
                   opsLeft, faultsLeft, ghosts, invoked>>

\* unregister_callback(event, callback)
UnregisterCallback(e, h) ==
    /\ running = NoTask
    /\ \E i \in 1..Len(callbacks[e]) : callbacks[e][i] = h
    /\ LET Other(x) == x # h IN
       callbacks' = [callbacks EXCEPT ![e] = SelectSeq(@, Other)]
    /\ UNCHANGED <<engine, link, nConn, notifying, wire, device, task, running,
                   opsLeft, faultsLeft, ghosts, invoked>>

\* _trigger_event(event): the coroutine callbacks are all handed to
\* asyncio.gather, which starts each of them and raises the first exception;
\* the other callbacks are then called one after the other with no handler
\* around the call
TriggerEvent(e) ==
    /\ running = NoTask
    /\ LET IsAsync(h) == h.async
           IsSync(h) == ~h.async
           async_callbacks == SelectSeq(callbacks[e], IsAsync)
           sync_callbacks == SelectSeq(callbacks[e], IsSync)
           gathered == \E i \in 1..Len(async_callbacks) : async_callbacks[i].raises
           called == {i \in 1..Len(sync_callbacks) :
                         \A j \in 1..(i - 1) : ~sync_callbacks[j].raises}
       IN  invoked' =
              [event |-> e,
               ran |-> {async_callbacks[i] : i \in 1..Len(async_callbacks)}
                       \cup (IF gathered THEN {}
                             ELSE {sync_callbacks[i] : i \in called}),
               raised |-> gathered \/ \E i \in called : sync_callbacks[i].raises]
    /\ UNCHANGED <<engine, link, nConn, notifying, wire, device, task, running,
                   opsLeft, faultsLeft, ghosts, callbacks>>

NextEvents ==
    \/ \E e \in Events : \E h \in [async : BOOLEAN, raises : BOOLEAN] :
          RegisterCallback(e, h)
    \/ \E e \in Events : \E h \in [async : BOOLEAN, raises : BOOLEAN] :
          UnregisterCallback(e, h)
    \/ \E e \in Events : TriggerEvent(e)

\* an engine as constructed, its observers coming and going
SpecEvents == Init /\ [][NextEvents]_vars

(* ------------------------------ properties ----------------------------- *)

\* the send of task t registered the pending-response slot (line 514) and has
\* neither returned nor raised
Unresolved(t) == task[t].pc \in {"w_lock", "w_write", "w_resp", "w_tmo", "w_can"}

\* C1: a send invoked on a connected engine while the send of another caller
\* is unresolved fails at once, before any await, with
\* MAAlreadyAwaitingResponseException: it builds no frame, takes no message id,
\* does not touch the pending-response slot or the transport guard, and the
\* device receives no byte of it.
C1_SecondSendRejected ==
    [][\A t \in Tasks :
          (/\ running = t
           /\ task[t].pc = "w_entry"
           /\ IsConnected
           /\ \E u \in Tasks \ {t} : Unresolved(u))
          => /\ task'[t].pc = task[t].mid
             /\ task'[t].exc = "Already"
             /\ task'[t].msg = <<>>
             /\ running' = t
             /\ wire' = wire
             /\ owed' = owed
             /\ UNCHANGED <<message_id, response_future, fut, gatt_lock>>]_vars

\* C1 witness: a caller is back in get_status with the already-awaiting
\* failure while the send of the other caller is still unresolved
C1_Witness ==
    \E t \in Tasks :
        /\ task[t].pc = "status"
        /\ task[t].exc = "Already"
        /\ \E u \in Tasks \ {t} : Unresolved(u)

\* C2: in every reachable state at most one send is unresolved.
C2_SingleFlight == Cardinality({t \in Tasks : Unresolved(t)}) <= 1

\* C2 witness: a caller enters _async_write_request while the send of the other
\* caller has its response delivered and has not yet resumed
C2_Witness ==
    \E t \in Tasks :
        /\ running = t
        /\ task[t].pc = "w_entry"
        /\ IsConnected
        /\ \E u \in Tasks \ {t} : task[u].pc = "w_resp" /\ fut[u].st = "result"

\* C3: once the send that registered the pending-response slot has returned
\* or raised, the slot is empty: the slot is only ever held by a send that is
\* still unresolved.
C3_SlotEmptyAfterSend ==
    (\A t \in Tasks : ~Unresolved(t)) => response_future = NoTask

\* C4: when async_connect or async_login raised inside __aenter__, the entry
\* does not hand the session to its body, and the transport is disconnected
\* when the entry finishes.
C4_EntryFailurePropagated ==
    [][\A t \in Tasks :
          (/\ running = t
           /\ task[t].pc = "ret"
           /\ task[t].sess = "enter"
           /\ task[t].exc # "none")
          => /\ task'[t].sess # "body"
             /\ ~IsConnected']_vars

\* C5: when a session that ran its body ends - after a normal end of the body,
\* after an exception of the body, or after a failed logout - the transport
\* is disconnected.  (An exit whose transport disconnect itself failed is not
\* among the cases.)
C5_DisconnectedAfterExit ==
    [][\A t \in Tasks :
          (/\ task[t].top = "session"
           /\ task[t].pc \in {"exit", "ret"}
           /\ ~(task[t].mid = "disconnect" /\ task[t].exc # "none")
           /\ task'[t].pc = "idle")
          => ~IsConnected']_vars

\* C6: at the step at which the link stops being up, every request whose
\* sender awaits a still pending response Future has that Future failed.
C6_PendingFailedOnLinkDown ==
    [][(link = "up" /\ link' # "up")
          => \A t \in Tasks :
                (task[t].pc = "w_resp" /\ fut[task[t].aw].st = "pending")
                => fut'[task[t].aw].st = "exception"]_vars

\* the response Future a sender awaits was failed by set_exception
ConnectionClosed == [st |-> "exception", val |-> <<>>]

\* C7: async_disconnect on an engine that is not connected raises
\* MAStateException and leaves link and Futures alone; on a connected engine
\* with a request in flight the Future of that request is already failed when
\* the transport's disconnect primitive is called, and the sender that resumes
\* on it raises MAConnectionException.
C7_DisconnectFailsPendingFirst ==
    [][/\ \A t \in Tasks :
            (running = t /\ task[t].pc = "d_entry")
            => IF ~IsConnected
               THEN /\ task'[t].pc = "ret"
                    /\ task'[t].exc = "State"
                    /\ UNCHANGED <<link, fut, discSaw>>
               ELSE /\ task'[t].pc = "d_wait"
                    /\ link' = "closing"
                    /\ (response_future # NoTask /\ fut[response_future].st = "pending")
                       => /\ fut'[response_future] = ConnectionClosed
                          /\ discSaw' = "exception"
       /\ \A u \in Tasks :
            (/\ task[u].pc = "w_resp"
             /\ fut[task[u].aw] = ConnectionClosed
             /\ task'[u].pc # task[u].pc)
            => \/ task'[u].exc = "Connection"
               \/ task'[u].pc \in {"w_tmo", "w_can"}]_vars

\* C7 witness: the transport's disconnect primitive is running, called after
\* the request in flight was failed, and the sender has not yet resumed
C7_Witness ==
    /\ discSaw = "exception"
    /\ link = "closing"
    /\ \E u \in Tasks : task[u].pc = "w_resp" /\ fut[task[u].aw] = ConnectionClosed

\* C8: async_connect called while a transport connect is in progress, while
\* the link is up or while it is being torn down raises MAStateException and
\* starts no transport connect.
C8_ConnectOnlyWhenDisconnected ==
    [][\A t \in Tasks :
          (/\ running = t
           /\ task[t].pc = "c_entry"
           /\ (IsConnected \/ nConn > 0))
          => /\ task'[t].pc = "ret"
             /\ task'[t].exc = "State"
             /\ nConn' = nConn]_vars

\* C9: message_id is always in 0..7; an async_connect that passes its state
\* check resets it to 0; a request accepted for transmission carries the
\* current message_id in its header and advances it by one modulo 8, so that
\* the n-th request accepted since the reset carries (n - 1) mod 8.
C9_MessageIdCycle ==
    /\ [](message_id \in 0..7)
    /\ [][\A t \in Tasks :
            /\ (task[t].pc = "c_entry" /\ task'[t].pc = "c_conn")
               => message_id' = 0
            /\ (task[t].pc = "w_entry" /\ Unresolved(t)')
               => /\ FrameId(task'[t].msg) = message_id
                  /\ FrameId(task'[t].msg) \in 0..7
                  /\ message_id' = (message_id + 1) % 8
                  /\ FrameId(task'[t].msg) = (nAccepted' - 1) % 8]_vars

\* C9 witness: the ninth request since the connect is in flight with id 0
C9_Witness ==
    \E t \in Tasks :
        /\ Unresolved(t)
        /\ nAccepted = 9
        /\ FrameId(task[t].msg) = 0
        /\ message_id = 1

\* the payload is a response of the short type byte ty with result SUCCESS
IsSuccessOf(payload, ty) ==
    /\ Len(payload) >= ResponseLen
    /\ payload[1] = ty % 256
    /\ payload[2] = SUCCESS

\* C10: async_login builds its requests in the order LOGIN_REQUEST, UNKNOWN_1,
\* UNKNOWN_2, each with the PIN, and builds the next one only after the
\* previous one returned a response of its own type with result SUCCESS; the
\* frame of the k-th request carries that type and, when the k - 1 earlier
\* login requests are all that was accepted since the connect, message id
\* k - 1; the frame reaches the device whole; the login returns without an
\* exception only after the third SUCCESS, and never builds a fourth request.
C10_LoginHandshake ==
    [][\A t \in Tasks :
             LET Handshake == <<LOGIN_REQUEST, UNKNOWN_1, UNKNOWN_2>>
                 r == task[t]
                 q == task'[t]
             IN  /\ (r.pc = "login" /\ q.pc = "w_entry")
                    => /\ q.seq = r.seq + 1
                       /\ q.seq \in 1..3
                       /\ q.req = AuthenticatedRequest(Handshake[q.seq], Pin)
                       /\ r.seq > 0 => /\ r.exc = "none"
                                       /\ IsSuccessOf(r.resp, Handshake[r.seq])
                 /\ (r.mid = "login" /\ r.pc = "w_entry" /\ Unresolved(t)')
                    => /\ q.msg = Frame(AuthenticatedRequest(Handshake[r.seq], Pin),
                                        message_id)
                       /\ FrameType(q.msg) = Handshake[r.seq]
                       /\ nAccepted = r.seq - 1 => FrameId(q.msg) = r.seq - 1
                 /\ (r.mid = "login" /\ r.pc = "w_write" /\ q.pc = "w_resp")
                    => /\ wire' = <<>>
                       /\ Len(owed) < MaxOwed
                          => owed' = Append(owed, Handshake[r.seq])
                 /\ (r.pc = "login" /\ q.pc = "ret" /\ q.exc = "none")
                    => /\ r.seq = 3
                       /\ IsSuccessOf(r.resp, Handshake[3])]_vars

\* C10 witness: a login that followed a connect with nothing in between
\* returns after its third SUCCESS
C10_Witness ==
    \E t \in Tasks :
        /\ running = t
        /\ task[t].pc = "login"
        /\ task[t].seq = 3
        /\ task[t].exc = "none"
        /\ IsSuccessOf(task[t].resp, UNKNOWN_2)
        /\ nAccepted = 3
        /\ message_id = 3

\* the ways a request fails that the handshake is said to surface: a
\* non-success result or a response of another type (MAResponseException), a
\* timeout of the write or of the response (MATimeoutException), a write
\* error (MARequestException)
RequestFailures == {"Response", "Timeout", "Request"}

\* C11: when one of the three requests of async_login failed - non-success
\* result, type mismatch, timeout or write error - async_login raises that
\* same exception at its next step: it builds no further handshake request, no
\* byte reaches the device and no message id is taken, the pending-response
\* slot is empty, and the link is as the failure left it; a disconnect called
\* while the link is up is accepted.
C11_LoginFailureAborts ==
    [][\A t \in Tasks :
          LET r == task[t]
              q == task'[t]
          IN  /\ (r.pc = "login" /\ r.seq > 0 /\ r.exc \in RequestFailures
                  /\ q # r)
                 => /\ q.pc = "ret"
                    /\ q.exc = r.exc
                    /\ q.req = <<>> /\ q.msg = <<>>
                    /\ response_future = NoTask
                    /\ UNCHANGED <<response_future, message_id, nAccepted,
                                   wire, owed, link>>
              /\ (r.mid = "login" /\ r.pc = "w_entry" /\ q.pc = "login"
                  /\ q.exc # "none")
                 => UNCHANGED <<wire, owed, message_id, link>>
              /\ (running = t /\ r.pc = "d_entry" /\ link = "up")
                 => q.pc = "d_wait"]_vars

\* C11 witness: the first handshake request was answered BAD_PIN and
\* async_login has raised MAResponseException to __aenter__: the link is up,
\* the slot is empty, the device has received the first frame only
C11_Witness ==
    \E t \in Tasks :
        /\ task[t].pc = "ret"
        /\ task[t].mid = "login"
        /\ task[t].exc = "Response"
        /\ nAccepted = 1
        /\ link = "up"
        /\ response_future = NoTask
        /\ owed = <<>> /\ wire = <<>>

\* the response Future holds a payload of the request's own type byte
AnsweredInType(t) ==
    /\ task[t].pc = "w_resp"
    /\ fut[task[t].aw].st = "result"
    /\ Len(fut[task[t].aw].val) >= ResponseLen
    /\ fut[task[t].aw].val[1] = FrameType(task[t].msg) % 256

\* C12: a send that resumes on a response of its own type raises the
\* authentication exception (MAAuthException) exactly when the result code is
\* BAD_PIN or UNKNOWN_3_BAD_PIN, and the response exception
\* (MAResponseException) for IN_MENUS and every other non-success code.
C12_BadPinIsAuthFailure ==
    [][\A t \in Tasks :
          (AnsweredInType(t) /\ task'[t].pc = task[t].mid)
          => LET result == fut[task[t].aw].val[2]
             IN  /\ result \in {BAD_PIN, UNKNOWN_3_BAD_PIN}
                       => task'[t].exc = "Auth"
                 /\ result \notin {SUCCESS, BAD_PIN, UNKNOWN_3_BAD_PIN}
                       => task'[t].exc = "Response"]_vars

\* the session of task t holds the connection guard: __aenter__ came back
\* from acquire() (line 414) and __aexit__ has not yet released (line 453)
InSession(t) ==
    /\ task[t].top = "session"
    /\ task[t].pc \notin {"idle", "enter", "s_lock"}

\* C13: at most one session is between the acquire of the connection guard in
\* __aenter__ and the release at the end of __aexit__, and it owns the guard;
\* a session that waits for the guard takes no step of its own - no connect,
\* no login, no command - until it is let in, which happens only when no
\* session is active, or until it is cancelled.
C13_OneSession ==
    /\ [](/\ Cardinality({t \in Tasks : InSession(t)}) <= 1
          /\ \A t \in Tasks : InSession(t) => connection_lock.owner = t)
    /\ [][\A t \in Tasks :
            (task[t].pc = "s_lock" /\ task'[t] # task[t])
            => \/ task'[t] = IdleTask
               \/ /\ \A u \in Tasks \ {t} : ~InSession(u)
                  /\ connection_lock.owner = NoTask
                  /\ task'[t].pc = "c_entry"]_vars

\* C13 witness: a second session waits for the connection guard while the
\* command of the first session's body is in flight
C13_Witness ==
    \E t \in Tasks : \E u \in Tasks \ {t} :
        /\ task[t].top = "session"
        /\ task[t].pc = "s_lock"
        /\ InSession(u)
        /\ task[u].sess = "body"
        /\ task[u].pc = "w_resp"
        /\ connection_lock.waiters = <<t>>

\* task t has a read_gatt_char or write_gatt_char call in progress, or is
\* between two chunk writes of its frame (lines 473-476, 516-524)
InPrimitive(t) == task[t].pc \in {"c_read", "w_write"}

\* C14: at most one task is inside a read_gatt_char or write_gatt_char call,
\* and it owns the transport guard; a sender keeps the guard from the first
\* chunk of its frame to the last, each chunk follows the previous one at the
\* device with nothing in between, and bytes reach the device only from the
\* owner of the guard.
C14_OnePrimitive ==
    /\ [](/\ Cardinality({t \in Tasks : InPrimitive(t)}) <= 1
          /\ \A t \in Tasks : InPrimitive(t) => gatt_lock.owner = t)
    /\ [][/\ \A t \in Tasks :
               (/\ task[t].pc = "w_write"
                /\ task'[t].pc = "w_write"
                /\ task'[t].ci # task[t].ci)
               => /\ task'[t].ci = task[t].ci + 1
                  /\ task'[t].msg = task[t].msg
                  /\ gatt_lock' = gatt_lock
                  /\ wire' = wire \o Chunk(task[t].msg, task[t].ci)
          /\ (wire' # wire /\ wire' # <<>>)
               => \E t \in Tasks :
                     /\ task[t].pc = "w_write"
                     /\ gatt_lock.owner = t
                     /\ task'[t].ci = task[t].ci + 1
                     /\ \A u \in Tasks \ {t} : task'[u] = task[u]
          /\ Len(owed') > Len(owed)
               => \E t \in Tasks :
                     /\ task[t].pc = "w_write"
                     /\ gatt_lock.owner = t
                     /\ task[t].ci = NumChunks(task[t].msg)
                     /\ wire \o Chunk(task[t].msg, task[t].ci) = task[t].msg
                     /\ owed' = Append(owed, FrameType(task[t].msg))]_vars

\* C14 witness: the version read of a connect waits for the transport guard
\* while the chunk write of another caller's request is in progress
C14_Witness ==
    \E t \in Tasks : \E u \in Tasks \ {t} :
        /\ task[t].pc = "c_rlock"
        /\ task[u].pc = "w_write"
        /\ gatt_lock = [owner |-> u, waiters |-> <<t>>]

\* C15: _async_write_request called while the link is down raises
\* MAStateException before its first await: no frame is built, no byte reaches
\* the device, and message id, pending-response slot, Futures and transport
\* guard are left as they were.
C15_SendWhenNotConnected ==
    [][\A t \in Tasks :
          (/\ running = t
           /\ task[t].pc = "w_entry"
           /\ link = "down")
          => /\ task'[t].pc = task[t].mid
             /\ task'[t].exc = "State"
             /\ task'[t].msg = <<>>
             /\ task'[t].resp = <<>>
             /\ running' = t
             /\ UNCHANGED <<wire, owed, air, message_id, nAccepted,
                            response_future, fut, gatt_lock, link>>]_vars

\* C15 witness: a status query on an engine whose link is down is back in
\* async_get_status with MAStateException, and the device has nothing of it
C15_Witness ==
    \E t \in Tasks :
        /\ running = t
        /\ task[t].pc = "status"
        /\ task[t].seq = 1
        /\ task[t].exc = "State"
        /\ link = "down"
        /\ wire = <<>> /\ owed = <<>>
        /\ nAccepted = 0

\* the response Future of the send of t holds a payload whose message type
\* byte is not the low byte of the request's message type
AnsweredOutOfType(t) ==
    /\ task[t].pc = "w_resp"
    /\ fut[task[t].aw].st = "result"
    /\ Len(fut[task[t].aw].val) >= ResponseLen
    /\ fut[task[t].aw].val[1] # FrameType(task[t].msg) % 256

\* C16: a send that resumes on a response whose message type byte differs from
\* the low byte of its request's type raises MAResponseException, whatever the
\* result code, and hands no payload to its caller; a send returns - with the
\* payload exactly as received - if and only if it resumes on a response of
\* its own type with result SUCCESS.
C16_TypeMismatchRejected ==
    [][\A t \in Tasks :
          LET r == task[t]
              q == task'[t]
              payload == fut[r.aw].val
          IN  /\ (AnsweredOutOfType(t) /\ q.pc = r.mid)
                 => /\ q.exc = "Response"
                    /\ q.resp = <<>>
              /\ (AnsweredInType(t) /\ q.pc = r.mid)
                 => IF payload[2] = SUCCESS
                    THEN q.exc = "none" /\ q.resp = payload
                    ELSE q.exc # "none" /\ q.resp = <<>>
              /\ (Unresolved(t) /\ q.pc = r.mid /\ q.exc = "none")
                 => /\ AnsweredInType(t)
                    /\ payload[2] = SUCCESS
                    /\ q.resp = payload]_vars

\* C16 witness: a status request (type 0x0205) has been answered with the late
\* response to an earlier request of type byte 0x01 and result SUCCESS
C16_Witness ==
    \E t \in Tasks :
        /\ AnsweredOutOfType(t)
        /\ FrameType(task[t].msg) = STATUS_REQUEST
        /\ fut[task[t].aw].val[1] = LOGIN_REQUEST % 256
        /\ fut[task[t].aw].val[2] = SUCCESS

\* task t is inside _async_write_request
InSend(t) == task[t].pc \in {"w_entry", "w_lock", "w_write", "w_resp", "w_tmo", "w_can"}

\* C17: a send whose wait for the response was ended by the command timeout
\* raises MATimeoutException to its caller, and so does one whose chunk write
\* timed out; no step of a send changes the link or starts a transport
\* connect; a send passes each chunk of its frame to the transport once, in
\* order, and never goes back to an earlier chunk or to the write after it
\* started to wait for the response; the operation that called a failed send
\* raises in its turn instead of sending again.
C17_TimeoutNoRetry ==
    [][\A t \in Tasks :
          LET r == task[t]
              q == task'[t]
          IN  /\ (r.pc = "w_tmo" /\ q # r)
                 => /\ q.pc = r.mid
                    /\ q.exc = "Timeout"
                    /\ q.resp = <<>>
                    /\ UNCHANGED <<wire, owed, message_id>>
              /\ (InSend(t) /\ q # r)
                 => /\ UNCHANGED <<link, nConn>>
                    /\ q.pc \in {"w_lock", "w_write", "w_resp", "w_tmo", "w_can", r.mid}
                    /\ InSend(t)' => q.req = r.req
              /\ (r.pc = "w_write" /\ q # r)
                 => \/ q.pc = "w_write" /\ q.ci = r.ci + 1 /\ q.msg = r.msg
                    \/ q.pc = "w_resp" /\ r.ci = NumChunks(r.msg)
                    \/ q.pc = r.mid /\ q.exc \in {"Request", "Timeout", "Cancelled", "Type"}
              /\ (r.pc \in {"w_resp", "w_tmo", "w_can"} /\ q # r)
                 => /\ q.pc \in {"w_tmo", "w_can", r.mid}
                    /\ UNCHANGED <<wire, owed>>
              /\ (r.pc = r.mid /\ r.pc \in {"login", "logout", "status", "mode"}
                  /\ r.exc # "none" /\ q # r)
                 => q.pc = "ret" /\ q.exc = r.exc]_vars

\* C17 witness: the status request reached the device once, the command
\* timeout ended the wait for its response, and async_get_status has
\* MATimeoutException in hand while the link is still up
C17_Witness ==
    \E t \in Tasks :
        /\ running = t
        /\ task[t].pc = "status"
        /\ task[t].exc = "Timeout"
        /\ nAccepted = 1
        /\ owed = <<STATUS_REQUEST>>
        /\ link = "up"
        /\ nConn = 0

\* the length field of a frame
DeclaredLength(frame) == frame[1] + 256 * frame[2]

\* the bytes of a frame between its message id and its two checksum bytes
Enclosed(frame) == SubSeq(frame, 4, Len(frame) - 2)

\* the reassembly holds the declared length of the frame being notified and
\* all its bytes notified so far but the two of the length field
Midway ==
    /\ air # inbound
    /\ receive_length = DeclaredLength(inbound)
    /\ receive_buffer \o air = SubSeq(inbound, 3, Len(inbound))

\* C18: a frame of declared length L up to 64 arrives for a pending request
\* in notifications cut at any byte, the first of at least 3 bytes.  Every
\* notification but the last leaves the request pending and the reassembly
\* holding L and the bytes so far; the notification that brings the last byte
\* resolves the request - once, and with the L - 3 bytes between the message
\* id and the checksum - and leaves the reassembly ready for a new message.
C18_ReassemblyAnySplit ==
    [][LET data == SubSeq(air, 1, Len(air) - Len(air'))
           L == DeclaredLength(inbound)
           first == air = inbound /\ receive_length = 0 /\ Len(data) >= 3
       IN  (/\ air' # air
            /\ L <= MaxReceiveLength
            /\ response_future # NoTask
            /\ fut[response_future].st = "pending"
            /\ (first \/ Midway))
           => IF air' # <<>>
              THEN /\ receive_length' = L
                   /\ receive_buffer' \o air' = SubSeq(inbound, 3, Len(inbound))
                   /\ UNCHANGED fut
              ELSE /\ receive_length' = 0
                   /\ fut'[response_future] =
                         [st |-> "result", val |-> Enclosed(inbound)]
                   /\ Len(fut'[response_future].val) = L - 3
                   /\ \A t \in Tasks \ {response_future} : fut'[t] = fut[t]]_vars

\* C18 witness: a frame of 44 bytes (declared length 42) has been notified
\* whole to a pending request and its 39 bytes of payload were delivered
C18_Witness ==
    /\ air = <<>>
    /\ receive_length = 0
    /\ response_future = "t1"
    /\ fut["t1"] = [st |-> "result", val |-> InboundPayload(39)]
    /\ task["t1"].pc = "w_resp"

\* C19: a notification that starts a message (no reassembly under way, at
\* least the 3 header bytes) and declares a length above 64 raises
\* MAInternalException in that very call: none of its bytes is kept, the
\* pending request is left alone, and the reassembly still expects the start
\* of a message; a declared length of exactly 64 is accepted, and the message
\* is delivered when its 64 bytes are in.
C19_OversizeRejected ==
    [][LET data == SubSeq(air, 1, Len(air) - Len(air'))
           a == Reassembled(receive_length, receive_buffer, data)
       IN  (air' # air /\ receive_length = 0 /\ Len(data) >= 3)
           => /\ DeclaredLength(data) > MaxReceiveLength
                 => /\ a.raise
                    /\ UNCHANGED <<receive_length, receive_buffer, fut>>
              /\ DeclaredLength(data) = MaxReceiveLength
                 => /\ ~a.raise
                    /\ IF Len(data) = MaxReceiveLength + 2
                       THEN /\ receive_length' = 0
                            /\ response_future # NoTask
                            /\ fut'[response_future].st = "result"
                            /\ Len(fut'[response_future].val) = MaxReceiveLength - 3
                       ELSE /\ receive_length' = MaxReceiveLength
                            /\ receive_buffer' = SubSeq(data, 3, Len(data))
                            /\ UNCHANGED fut]_vars

\* C19 witness: the first 20 bytes of a frame that declares length 65 have
\* been notified: nothing is kept of them, the request is still pending and
\* the next notification will be read as a header
C19_Witness ==
    /\ inbound # <<>>
    /\ DeclaredLength(inbound) = MaxReceiveLength + 1
    /\ Len(air) = Len(inbound) - ChunkSize
    /\ receive_length = 0
    /\ receive_buffer = <<>>
    /\ fut["t1"] = PendingFut

\* the next notification brings the first bytes of a frame while the
\* reassembly of an earlier message is still short of its declared length
NewMessageDuringReassembly ==
    /\ air # <<>>
    /\ air = inbound
    /\ receive_length > 0
    /\ Len(receive_buffer) < receive_length

\* C20: a notification that begins a new message while the reassembly of an
\* earlier message is incomplete is not appended to the incomplete message:
\* the reassembly buffer does not grow by the new message's bytes.
C20_NewMessageNotAppended ==
    [][(NewMessageDuringReassembly /\ air' # air)
          => receive_buffer' # receive_buffer \o SubSeq(air, 1, Len(air) - Len(air'))]_vars

\* the next notification brings the last bytes of the frame the device is
\* notifying, and the reassembly has all its earlier bytes
LastFragmentDue ==
    /\ air # <<>>
    /\ Len(air) <= ChunkSize
    /\ \/ air = inbound /\ receive_length = 0
       \/ Midway

\* C21: when the reassembly of a message completes while the pending-response
\* slot is empty (MAInternalException, line 621), no Future and no caller
\* receives the message, the slot stays empty and the reassembly is back at
\* the start of a message; a request sent on the link afterwards is accepted.
C21_UnsolicitedMessage ==
    [][/\ (LastFragmentDue /\ response_future = NoTask /\ air' = <<>>
           /\ link' = link)
          => /\ UNCHANGED <<fut, task, response_future, message_id, link>>
             /\ receive_length' = 0
             /\ receive_buffer' = <<>>
       /\ \A t \in Tasks :
             (/\ running = t
              /\ task[t].pc = "w_entry"
              /\ IsConnected
              /\ response_future = NoTask)
             => /\ Unresolved(t)'
                /\ response_future' = t
                /\ fut'[t] = PendingFut]_vars

\* C21 witness: the sender of a status request timed out after the first
\* notification of the response; the slot is empty and the last notification
\* of the response is due
C21_Witness ==
    /\ Midway
    /\ Len(air) <= ChunkSize
    /\ receive_length = StatusResponseLen + 3
    /\ response_future = NoTask
    /\ link = "up"
    /\ notifying
    /\ running = NoTask

\* the status query of task t has its SUCCESS response of full length in hand
\* and is about to convert it (lines 257-258)
StatusResponseInHand(t) ==
    /\ running = t
    /\ task[t].pc = "status"
    /\ task[t].seq = 1
    /\ task[t].exc = "none"
    /\ Len(task[t].resp) >= StatusResponseLen

\* C22: whatever the operation mode flags of a status response, the status
\* model built from it has exactly the one mode the priority rule gives for
\* those flags.
C22_ModeByPriority ==
    [][LET HasFlag(flags, b) == (flags \div b) % 2 = 1
           ModeByRule(flags) ==
               IF HasFlag(flags, FAN) /\ HasFlag(flags, AUTO) THEN "AUTO"
               ELSE IF HasFlag(flags, FAN) /\ HasFlag(flags, DRY) /\ HasFlag(flags, HEAT)
                    THEN "DRY"
               ELSE IF HasFlag(flags, FAN) /\ HasFlag(flags, HEAT) THEN "HEAT"
               ELSE IF HasFlag(flags, FAN) /\ HasFlag(flags, COOL) THEN "COOL"
               ELSE IF HasFlag(flags, FAN) THEN "FAN"
               ELSE "OFF"
       IN  \A t \in Tasks :
              (StatusResponseInHand(t) /\ task'[t] # task[t])
              => /\ task'[t].exc = "none"
                 /\ last_status' = <<ModeByRule(task[t].resp[7])>>]_vars

\* C23: an operation all of whose requests were answered with a complete
\* SUCCESS response has transmitted exactly two control requests when it is
\* set_operation_mode (whatever the target mode, OFF included) and exactly
\* one request otherwise, and a second request is only transmitted after the
\* first was answered with SUCCESS.
C23_TwoRequestsPerModeChange ==
    [][\A t \in Tasks :
          LET r == task[t]
              complete == /\ r.exc = "none"
                          /\ Len(r.resp) >= (IF r.pc = "status" THEN StatusResponseLen
                                             ELSE ControlResponseLen)
                          /\ r.resp[2] = SUCCESS
          IN  /\ (/\ r.pc \in {"status", "mode", "cool", "heat", "fan", "vane"}
                  /\ r.seq >= 1
                  /\ complete
                  /\ task'[t].pc = "ret")
                 => r.seq = (IF r.pc = "mode" THEN 2 ELSE 1)
              /\ (r.pc = "mode" /\ r.seq = 1 /\ task'[t].seq = 2) => complete]_vars

\* C24: a status query whose request received a well-formed SUCCESS status
\* response returns a status built from that response, and that status is
\* the engine's last status from then on.
C24_StatusReturned ==
    [][\A t \in Tasks :
          (StatusResponseInHand(t) /\ task[t].resp[2] = SUCCESS /\ task'[t].pc = "ret")
          => /\ task'[t].exc = "none"
             /\ last_status' # <<>>
             /\ last_status' # last_status]_vars

\* C25: a response payload shorter than the layout it is decoded as makes the
\* operation that sent the request fail with MAResponseException: shorter
\* than the generic response header when the sender wakes up with it, and
\* shorter than the status or control response when the operation decodes a
\* payload whose header reported SUCCESS.
C25_ShortResponseIsMalformed ==
    [][\A t \in Tasks :
          LET r == task[t] IN
          /\ (/\ r.pc = "w_resp"
              /\ fut[r.aw].st = "result"
              /\ Len(fut[r.aw].val) < ResponseLen
              /\ task'[t] # r)
             => task'[t].exc = "Response"
          /\ (/\ r.pc \in {"status", "mode", "cool", "heat", "fan", "vane"}
              /\ r.seq >= 1
              /\ r.exc = "none"
              /\ Len(r.resp) < (IF r.pc = "status" THEN StatusResponseLen
                                ELSE ControlResponseLen)
              /\ task'[t] # r)
             => (task'[t].pc = "ret" /\ task'[t].exc = "Response")]_vars

\* C26: the publication of an event invokes every handler registered for the
\* event, coroutine or not, also when one of the handlers raises.
C26_EveryHandlerInvoked ==
    [][invoked' # invoked
       => invoked'.ran = {callbacks[invoked'.event][i] :
                             i \in 1..Len(callbacks[invoked'.event])}]_vars

\* C27: the setpoint bytes of a request for a temperature between 16 and 31
\* degrees decode to the half degree nearest to that temperature (to the
\* temperature itself when it is a multiple of half a degree); 21.5 degrees
\* is encoded as the bytes 0x15 0x02, which decode to 21.5.
C27_TemperatureRoundTrip ==
    /\ TemperatureEncode(43 * TempGrid) = <<21, 2>>
    /\ TemperatureDecode(<<21, 2>>) = 215
    /\ \A t \in Tasks :
          (task[t].top \in {"cool", "heat"} /\ task[t].req # <<>>)
          => LET k == task[t].arg
                 d == TemperatureDecode(IF task[t].top = "cool"
                                        THEN SubSeq(task[t].req, 8, 9)
                                        ELSE SubSeq(task[t].req, 10, 11))
                 diff == 2 * TempGrid * d - 10 * k
             IN  /\ k \in Temperatures
                 /\ d % 5 = 0
                 /\ diff <= 5 * TempGrid
                 /\ -diff <= 5 * TempGrid

\* a request for a heat setpoint three steps above 21.5 degrees carries the
\* bytes of 21.5
C27_Witness ==
    \E t \in Tasks :
       /\ task[t].top = "heat"
       /\ task[t].arg = 43 * TempGrid + 3
       /\ task[t].req # <<>>
       /\ SubSeq(task[t].req, 10, 11) = <<21, 2>>

\* C28: the length field of the header of every frame the engine sends is
\* 1 + the length of the payload + 2, which is the number of bytes of the
\* frame after the two bytes of the length field.
C28_HeaderLength ==
    \A t \in Tasks :
       task[t].msg # <<>>
       => LET m == task[t].msg
              length == m[1] + 256 * m[2]
          IN  /\ length = 1 + Len(task[t].req) + 2
              /\ length = Len(m) - 2

\* a control request of 20 bytes is being sent in a frame of 25
C28_Witness ==
    \E t \in Tasks :
       /\ task[t].pc = "w_write"
       /\ Len(task[t].req) = 20
       /\ Len(task[t].msg) = 25
       /\ task[t].msg[1] = 23

\* C29: the footer of every frame the engine sends is the sum of all the
\* bytes before it modulo 256, as a 16-bit number: its high byte is zero.
C29_Checksum ==
    \A t \in Tasks :
       task[t].msg # <<>>
       => LET m == task[t].msg
              n == Len(m)
          IN  /\ m[n - 1] = SumBytes(SubSeq(m, 1, n - 2)) % 256
              /\ m[n] = 0

\* a frame is being sent whose bytes before the footer add up to more than 255
C29_Witness ==
    \E t \in Tasks :
       /\ task[t].pc = "w_write"
       /\ task[t].msg # <<>>
       /\ SumBytes(SubSeq(task[t].msg, 1, Len(task[t].msg) - 2)) > 255

\* C30: a frame of n bytes is written in ceil(n / 20) chunks, in order, each
\* of 20 bytes except possibly the last, which together are the frame; when
\* the write of a chunk fails or times out, no further chunk is written and
\* the send fails.
C30_ChunkedWrite ==
    [][\A t \in Tasks :
          LET r == task[t]
              n == Len(r.msg)
              lo == 20 * (r.ci - 1)
          IN  /\ (r.pc \notin {"w_lock", "w_write"} /\ task'[t].pc \in {"w_lock", "w_write"})
                 => task'[t].ci = 1
              /\ (r.pc = "w_lock" /\ task'[t].pc = "w_write")
                 => (task'[t].ci = 1 /\ task'[t].msg = r.msg /\ wire' = wire)
              /\ (r.pc = "w_write" /\ task'[t] # r)
                 => \/ /\ task'[t] = [r EXCEPT !.ci = r.ci + 1]
                       /\ lo + 20 < n
                       /\ wire' = wire \o SubSeq(r.msg, lo + 1, lo + 20)
                    \/ /\ task'[t].pc = "w_resp" \/ task'[t].exc = "Type"
                       /\ lo < n
                       /\ n <= lo + 20
                       /\ wire' = <<>>
                    \/ /\ task'[t].pc = r.mid
                       /\ task'[t].exc \in {"Request", "Timeout", "Cancelled"}
                       /\ wire' = wire
                       /\ owed' = owed]_vars

\* the second chunk of a frame of 25 bytes is about to be written, the device
\* holding the first 20 bytes
C30_Witness ==
    \E t \in Tasks :
       /\ task[t].pc = "w_write"
       /\ task[t].ci = 2
       /\ Len(task[t].msg) = 25
       /\ wire = SubSeq(task[t].msg, 1, 20)

\* C31: a send registers its pending-response slot before any chunk of its
\* frame is written and holds it as long as it writes; a message whose
\* reassembly completes while the sender still waits for the transport guard
\* or writes its chunks, the Future pending, becomes the result of that
\* Future and is not refused as unsolicited, and the sender resumes on it
\* once its last chunk is written.
C31_SlotBeforeFirstChunk ==
    [][\A t \in Tasks :
          LET r == task[t] IN
          /\ (r.pc = "w_entry" /\ task'[t].pc \in {"w_lock", "w_write"})
             => /\ response_future' = t
                /\ fut'[t] = PendingFut
                /\ task'[t].ci = 1
                /\ UNCHANGED <<wire, owed>>
          /\ r.pc \in {"w_lock", "w_write"} => response_future = t
          /\ (/\ r.pc \in {"w_lock", "w_write"}
              /\ fut[t].st = "pending"
              /\ LastFragmentDue
              /\ air' = <<>>
              /\ link' = link)
             => fut'[t] = [st |-> "result",
                           val |-> SubSeq(inbound, 4, Len(inbound) - 2)]
          /\ (r.pc = "w_write" /\ fut[t].st = "result" /\ task'[t].pc = "w_resp")
             => (running' = t /\ task'[t].aw = t /\ fut'[t] = fut[t])]_vars

\* C31 witness: a sender still writes its frame and its Future already holds
\* a response
C31_Witness ==
    \E t \in Tasks :
       /\ task[t].pc = "w_write"
       /\ response_future = t
       /\ fut[t].st = "result"

\* C32: the reassembly expects the start of a message (declared length 0)
\* after every notification that completed a message or was refused, and
\* whenever a connection is established.
C32_ReassemblyIdleAtConnect ==
    [][/\ (air # <<>> /\ air' # air /\ receive_length = 0 /\ receive_length' # 0)
          => Len(receive_buffer') < receive_length'
       /\ (LastFragmentDue /\ air' = <<>> /\ link' = link) => receive_length' = 0
       /\ (link = "down" /\ link' = "up") => receive_length' = 0]_vars

C34_VaneFanByte ==
    /\ \A vane \in VaneModes : \A fan \in FanModes :
          /\ VaneFanMode(vane, fan) \in 0..255
          /\ VaneFanMode(vane, fan) \div 16 = vane
          /\ VaneFanMode(vane, fan) % 16 = fan \div 16
    /\ \A t \in Tasks :
       (task[t].top \in {"fan", "vane"} /\ task[t].req # <<>>)
       => LET b == task[t].req[18]
              vane == IF task[t].top = "vane" THEN task[t].arg ELSE 0
              fan == IF task[t].top = "fan" THEN task[t].arg ELSE 0
          IN  /\ Len(task[t].req) = 20
              /\ b \in 0..255
              /\ b \div 16 = vane
              /\ b % 16 = fan \div 16
              /\ vane \in 0..7
              /\ fan \div 16 \in 0..4

\* C34 witness: the request for the fan mode AUTO is being written, its
\* vane/fan byte 0x04
C34_Witness ==
    \E t \in Tasks :
       /\ task[t].top = "fan"
       /\ task[t].arg = 64
       /\ task[t].pc = "w_write"
       /\ task[t].req[18] = 4

\* C35: the payload a send returns is the device's response to the request
\* of that send, never the late response to an earlier request.
C35_OwnResponse ==
    [][\A t \in Tasks :
          (/\ task[t].pc = "w_resp"
           /\ task'[t].pc = task[t].mid
           /\ task'[t].exc = "none")
          => task'[t].resp = ResponsePayload(FrameType(task[t].msg), SUCCESS)]_vars

\* C36: a message whose reassembly completes is handed to the Future in the
\* pending-response slot only while that Future is still pending: set_result
\* is never called on a Future that an earlier message resolved, that
\* async_disconnect failed or that a timeout cancelled.
C36_CompletedOnce ==
    [][(LastFragmentDue /\ air' = <<>> /\ link' = link /\ response_future # NoTask)
          => fut[response_future].st = "pending"]_vars

\* C37: in every reachable state the reassembler is idle (_receive_length is
\* 0) or holds strictly fewer bytes than the declared length of the message
\* in progress, so a later fragment can still complete the message.
C37_BufferBelowLength ==
    receive_length = 0 \/ Len(receive_buffer) < receive_length

\* C39: a send that fails one of the two checks at its entry (link down, or
\* the pending-response slot taken) leaves message_id, the slot, the Future of
\* the request in flight and the reassembly state as they were; message_id
\* changes only when a send is accepted, by one modulo 8, or when a connect
\* resets it to 0, so the write failure, the timeout and the response of an
\* accepted request do not move it again.
C39_RejectedSendChangesNothing ==
    [][/\ \A t \in Tasks :
            (/\ running = t
             /\ task[t].pc = "w_entry"
             /\ (link = "down" \/ response_future # NoTask))
            => /\ task'[t].pc = task[t].mid
               /\ task'[t].exc \in {"State", "Already"}
               /\ UNCHANGED <<message_id, nAccepted, response_future, fut,
                              receive_length, receive_buffer>>
       /\ \A t \in Tasks :
            (task[t].pc = "w_entry" /\ task'[t].pc \in {"w_lock", "w_write"})
            => /\ message_id' = (message_id + 1) % 8
               /\ nAccepted' = nAccepted + 1
       /\ message_id' # message_id
            => \E t \in Tasks :
                  \/ task[t].pc = "w_entry" /\ task'[t].pc \in {"w_lock", "w_write"}
                  \/ task[t].pc = "c_entry" /\ task'[t].pc = "c_conn"
       /\ nAccepted' # nAccepted /\ nAccepted' # 0
            => \E t \in Tasks :
                  task[t].pc = "w_entry" /\ task'[t].pc \in {"w_lock", "w_write"}]_vars

\* C39 witness: a send has just been rejected as already awaiting while the
\* response to the one accepted request is half reassembled, and message_id
\* has advanced once
C39_Witness ==
    \E t \in Tasks : \E u \in Tasks \ {t} :
        /\ running = t
        /\ task[t].exc = "Already"
        /\ task[t].pc = task[t].mid
        /\ task[u].pc = "w_resp"
        /\ response_future = u
        /\ fut[u].st = "pending"
        /\ receive_length > 0
        /\ nAccepted = 1
        /\ message_id = 1

\* C38: a caller owns the connection guard exactly from the step of
\* __aenter__ that acquires it to the release in the finally of __aexit__:
\* the owner is always inside its session, a session past the acquisition
\* always owns the guard, and the release returns the caller to idle; and a
\* session that waits for the guard does not wait forever.
C38_GuardReleasedOnce ==
    /\ [](\A t \in Tasks :
            connection_lock.owner = t
               <=> (task[t].top = "session" /\ task[t].pc \notin {"idle", "enter", "s_lock"}))
    /\ [][\A t \in Tasks :
            (connection_lock.owner = t /\ connection_lock'.owner # t)
               => task'[t].pc = "idle"]_vars
    /\ \A t \in Tasks :
          (task[t].pc = "s_lock") ~> (connection_lock.owner = t \/ task[t].pc = "idle")

\* C38 witness: the session that held the guard has released it and is gone,
\* and the session that waited for it is the one to be woken
C38_Witness ==
    \E t \in Tasks : \E u \in Tasks \ {t} :
        /\ task[t].pc = "s_lock"
        /\ CanWake(connection_lock, t)
        /\ task[u].pc = "idle"

\* C40: a send that was accepted does not stay for ever at the transport
\* guard, in the chunk writes or at the pending-response slot: it leaves
\* _async_write_request, and it does so with the response, with
\* MAResponseException, with the write's MARequestException or
\* MATimeoutException, with the timeout of the response, with the
\* connection-closed exception of async_disconnect, or by cancellation.
C40_SendReturns ==
    /\ \A t \in Tasks : Unresolved(t) ~> ~Unresolved(t)
    /\ [][\A t \in Tasks :
            (Unresolved(t) /\ ~Unresolved(t)')
               => /\ task'[t].pc = task[t].mid
                  /\ running' = t
                  /\ task'[t].exc \in {"none", "Response", "Request", "Timeout",
                                       "Connection", "Cancelled"}]_vars

\* C40 witness: a sender is back in async_get_status with the timeout of its
\* response while the other caller, whose connect held the transport guard
\* when the request was accepted, is at its second version read
C40_Witness ==
    \E t \in Tasks : \E u \in Tasks \ {t} :
        /\ running = t
        /\ task[t].pc = "status"
        /\ task[t].exc = "Timeout"
        /\ nAccepted = 1
        /\ task[u].pc \in {"c_rlock", "c_read"}
        /\ task[u].seq = 2

====
